---- MODULE Spec2Model ----
(***************************************************************************)
(* The translation pipeline of sergeyzm-dot/translator as a state machine.  *)
(*                                                                         *)
(* Two streaming translate routes are modelled:                            *)
(*   "batch": src/app/api/translate/route.ts:382-728, batches of           *)
(*            PARALLEL_LIMIT units, per-call timeout, retries, deadline;   *)
(*   "retry": src/app/api/cleanup/route.ts:138-284, one unit at a time     *)
(*            through withRetry, with a heartbeat timer.                   *)
(*                                                                         *)
(* Time is the number of milliseconds since the run started (Date.now() -  *)
(* startAt).  Code between two awaits is one action; the clock advances    *)
(* only while the run awaits, to the next instant at which a pending       *)
(* timer or remote call is due.                                            *)
(***************************************************************************)
EXTENDS Integers, Sequences, FiniteSets, TLC

\* ---------------------------------------------------------------- bounds
MaxPages == 4      \* page counts 0..MaxPages are reported by the extractor
MaxFaults == 2     \* anomalies per batch run: a remote error, timeout or empty
                   \* completion, a pdf-parse failure recovered by the fallback
MaxRetryFaults == 3  \* the same, per run of the retry route
MaxRequests == 3     \* requests served by the middleware and the cleanup route
MaxUploads == 3      \* uploads sent by the page

\* ------------------------------------------------------ program constants
DEFAULT_CHUNK_PAGES == 20
PARALLEL_LIMIT == 3
HARD_TIME_LIMIT_MS == 290000
CHUNK_REQUEST_TIMEOUT_MS == 60000
CHUNK_REQUEST_RETRIES == 1
BackoffBaseMs == 500
RetryAttempts == 3
RetryBaseMs == 800
RetryGroupSize == 5
HeartbeatMs == 10000
MaxJitter == 199   \* largest value of Math.floor(Math.random() * 200)
LimiterInterval == 60000   \* interval of the RateLimiter of the middleware
RequestLimit == 10         \* limiter.check(10, ip)
TwentyFourHours == 86400000

\* ------------------------------------------------------------ input sets
Routes == {"batch", "retry"}
\* chunkSizePages of the request body; 0 exercises Math.max(1, chunkSizePages)
ChunkSizes == {0, 2, DEFAULT_CHUNK_PAGES}
\* time spent downloading and extracting before the scheduling loop starts
SetupDurations == {1000, 289000, 289500, 290001}
\* latency of a remote call that answers before its timeout
Latencies == {1000}
\* time spent building and uploading the DOCX
BuildDurations == {1000}
\* the retry route: pages.length, call latencies, Math.floor(Math.random() * 200)
RetryPageCounts == {0, 1, 6}
RetryLatencies == {1000, 12000}
Jitters == {0, MaxJitter}
NoResponse == -1   \* the remote call does not answer while it is awaited
Undefined == -1    \* durationMs: undefined

VARIABLES
    route,          \* which POST handler serves the request
    pc,             \* position of the handler's start(controller)
    now,            \* Date.now() - startAt
    chunkSizePages, \* request parameter
    totalPages,     \* pdfData.info.numpages
    totalChunks,    \* pageChunks.length / chunks.length
    b,              \* batch loop index (batch) or chunk loop index i (retry)
    unit,           \* per unit: the state of its executor task
    abandoned,      \* remote calls dropped by a timeout and still outstanding
    faults,         \* anomalies so far (see MaxFaults)
    translated,     \* translated: string[] / translatedChunks
    failedChunks,
    translatedSoFar,
    chunkDurations,
    tokens,         \* totalPromptTokens, totalCompletionTokens
    events,         \* frames enqueued on the stream, in order
    closeCalls,     \* calls of controller.close()
    startThrew,     \* an exception escaped start(controller)
    stored,         \* number of documents put into blob storage
    result,         \* payload of the final frames (metrics_final, completed)
    hb,             \* heartbeat interval timer of the retry route
    fullText,       \* the text handed to a text function (TextSpec)
    ret,            \* the call of a text function and what it returned
    clock,          \* Date.now() of the server process (ApiSpec)
    limiterTokens,  \* RateLimiter.tokens: Map<string, TokenBucket>
    admitted,       \* per token: the instants at which the middleware let a
                    \* request to /api/translate through
    response,       \* the last request served and its response
    tempDir,        \* the files of process.cwd()/temp and their mtime
    cleanupSecret,  \* process.env.CLEANUP_SECRET
    file,           \* React state of the page: the selected file
    uploadId,       \* React state: the id of the last upload
    progress,       \* React state: stage and message
    translationResult, \* React state `result`
    hpc,            \* position of the running handleTranslate
    rendered,       \* the uploadId held by the closures of that invocation
    id,             \* its local `id`, returned by uploadFile
    requests,       \* the uploadId of every POST /api/translate sent
    reader,         \* the frames of the response body not yet read
    uploads         \* number of POST /api/upload sent

runVars == <<route, pc, now, chunkSizePages, totalPages, totalChunks, b, unit,
             abandoned, faults, translated, failedChunks, translatedSoFar,
             chunkDurations, tokens, events, closeCalls, startThrew, stored,
             result, hb>>
textVars == <<fullText, ret>>
apiVars == <<clock, limiterTokens, admitted, response, tempDir,
            cleanupSecret>>
clientVars == <<file, uploadId, progress, translationResult, hpc, rendered,
               id, requests, reader, uploads>>
vars == <<runVars, textVars, apiVars, clientVars>>

\* ---------------------------------------------------------------- helpers
Max(x, y) == IF x >= y THEN x ELSE y
Min(x, y) == IF x <= y THEN x ELSE y
CeilDiv(x, y) == (x + y - 1) \div y
\* Math.round(ms / 1000) for ms >= 0
RoundSeconds(ms) == (ms + 500) \div 1000
RECURSIVE Pow2(_)
Pow2(n) == IF n <= 0 THEN 1 ELSE 2 * Pow2(n - 1)
SetMin(S) == CHOOSE x \in S : \A y \in S : x <= y

Ev(t, n, o) == [type |-> t, index |-> n, ok |-> o]
Log == Ev("log", 0, TRUE)
ErrorEv == Ev("error", 0, FALSE)

NoResult == [set |-> FALSE, partial |-> FALSE, failedChunks |-> 0,
             pagesProcessed |-> 0, elapsedSeconds |-> 0,
             totalChunksCompleted |-> 0]
NoHb == [active |-> FALSE, next |-> 0]

\* mutant: the frame is put at the head of the queue
sendAtHead(evs, e) == <<e>> \o evs

\* send: controller.enqueue of one frame
send(evs, e) == Append(evs, e)

RECURSIVE sendN(_, _, _)
\* n sends of the frame e, one by each of n tasks
sendN(evs, e, n) == IF n = 0 THEN evs ELSE sendN(send(evs, e), e, n - 1)

\* no text function has been called
NoRet == [fn |-> "none", n |-> 0, size |-> 0, slices |-> <<>>, pages |-> <<>>,
          groups |-> <<>>, out |-> <<>>]

\* the state of a handler at the start of start(controller)
Fresh ==
    /\ pc = "start"
    /\ now = 0
    /\ chunkSizePages = DEFAULT_CHUNK_PAGES
    /\ totalPages = 0
    /\ totalChunks = 0
    /\ b = 0
    /\ unit = <<>>
    /\ abandoned = 0
    /\ faults = 0
    /\ translated = <<>>
    /\ failedChunks = 0
    /\ translatedSoFar = 0
    /\ chunkDurations = <<>>
    /\ tokens = [prompt |-> 0, completion |-> 0]
    /\ events = <<>>
    /\ closeCalls = 0
    /\ startThrew = FALSE
    /\ stored = 0
    /\ result = NoResult
    /\ hb = NoHb

\* process.env.CLEANUP_SECRET is not set
Unset == "undefined"
\* the authorization header of a request; present = FALSE: headers.get is null
Header(scheme, cred) == [present |-> TRUE, scheme |-> scheme, cred |-> cred]
NoHeader == [present |-> FALSE, scheme |-> "", cred |-> ""]
\* a file name that readdir does not return
Absent == -1
FileNames == {"f1", "f2"}
\* the keys of RateLimiter.tokens: request.ip, x-forwarded-for, 'anonymous'
ClientIps == {"ip1", "ip2"}
Tokens == ClientIps \cup {"anonymous"}
\* tokens.get(token) is undefined
NoBucket == [present |-> FALSE, count |-> 0, lastRefill |-> 0]
NoResp == [seq |-> 0, path |-> "", token |-> "", at |-> 0, status |-> 0,
           inInterval |-> 0, authorization |-> NoHeader, deletedFiles |-> 0]

\* the server process before its first request: the limiter of the middleware
\* was constructed, its Map is empty
ApiFresh ==
    /\ clock = 0
    /\ limiterTokens = [t \in Tokens |-> NoBucket]
    /\ admitted = [t \in Tokens |-> <<>>]
    /\ response = NoResp

\* useState(null): no file, no upload id, no result
NoFile == "null"
NoId == 0
NoTranslation == "null"
\* the page after it was loaded
ClientFresh ==
    /\ file = NoFile
    /\ uploadId = NoId
    /\ progress = [stage |-> "idle", message |-> ""]
    /\ translationResult = NoTranslation
    /\ hpc = "idle"
    /\ rendered = NoId
    /\ id = NoId
    /\ requests = <<>>
    /\ reader = <<>>
    /\ uploads = 0

Init ==
    /\ route \in Routes
    /\ Fresh
    /\ fullText = <<>>
    /\ ret = NoRet
    /\ ApiFresh
    /\ tempDir = [f \in FileNames |-> Absent]
    /\ cleanupSecret = Unset
    /\ ClientFresh


\* ------------------------------------------------------------ exit paths
\* controller.close(); on a controller that is already closed it throws
CloseThrows(c) == c >= 1

\* mutant: the catch block only logs to the console
CatchBlockSilent(evs) == evs

\* the catch block of start(): report the error on the stream
CatchBlock(evs) == send(evs, ErrorEv)

\* an exception reaches catch (err) of start(); then finally closes the stream
ExitCatch(evs) ==
    /\ events' = CatchBlock(evs)
    /\ closeCalls' = closeCalls + 1
    /\ startThrew' = (startThrew \/ CloseThrows(closeCalls))
    /\ pc' = "done"

\* send({type: "error"}); controller.close(); return;  -- followed by the
\* finally block, which calls controller.close() a second time
ExitEarly(evs) ==
    /\ events' = send(evs, ErrorEv)
    /\ closeCalls' = closeCalls + 2
    /\ startThrew' = (startThrew \/ CloseThrows(closeCalls + 1))
    /\ pc' = "done"

\* ------------------------------------------------------------- chunking
\* splitTextByPages(fullText, numPages).length
NumPageTexts(numPages) == IF numPages <= 1 THEN 1 ELSE numPages
\* groupBy(arr, size).length
NumGroups(len, size) == CeilDiv(len, size)
\* mutant: batches one unit larger than PARALLEL_LIMIT
BatchUnitsOffByOne(bb) ==
    {k \in 0..(totalChunks - 1) : k \div (PARALLEL_LIMIT + 1) = bb}

\* the 0-based unit indices of batch bb: batches = groupBy(pageChunks, PARALLEL_LIMIT)
BatchUnits(bb) ==
    {k \in 0..(totalChunks - 1) : k \div PARALLEL_LIMIT = bb}
NumBatches == NumGroups(totalChunks, PARALLEL_LIMIT)
\* mutant: the index of the task within its batch
ChunkIndexInBatch(bb, i) == i + 1

\* chunkIndexGlobal of the i-th task of batch bb (1-based, for the events)
ChunkIndexGlobal(bb, i) == bb * PARALLEL_LIMIT + i + 1
IndexOf(k) == ChunkIndexGlobal(k \div PARALLEL_LIMIT, k % PARALLEL_LIMIT)

NewUnit == [st |-> "new", attempt |-> 0, t0 |-> 0, respondAt |-> NoResponse,
            timeoutAt |-> 0, backoffUntil |-> 0, errs |-> <<>>, calls |-> 0,
            waits |-> <<>>, ok |-> FALSE, text |-> <<>>, durationMs |-> Undefined,
            usage |-> FALSE, admits |-> 0, admittedAt |-> Undefined]

\* ------------------------------------------------ batch route: before the loop
\* route.ts:391-425: parse the request body and validate it
Validate ==
    /\ route = "batch"
    /\ pc = "start"
    /\ \E req \in {"ok", "throws", "bad_model", "no_file", "no_key"},
          size \in ChunkSizes :
        IF req = "throws" THEN
            /\ ExitCatch(events)
            /\ UNCHANGED chunkSizePages
        ELSE IF req # "ok" THEN
            /\ ExitEarly(events)
            /\ UNCHANGED chunkSizePages
        ELSE
            /\ chunkSizePages' = size
            /\ events' = send(events, Log)
            /\ pc' = "download"
            /\ UNCHANGED <<closeCalls, startThrew>>
    /\ UNCHANGED <<route, now, totalPages, totalChunks, b, unit, abandoned,
                   faults, translated, failedChunks, translatedSoFar,
                   chunkDurations, tokens, stored, result, hb>>
    /\ UNCHANGED <<textVars, apiVars, clientVars>>

\* route.ts:426-439: fetch the PDF
Download ==
    /\ route = "batch"
    /\ pc = "download"
    /\ \E res \in {"ok", "not_ok", "throws"} :
        IF res = "throws" THEN ExitCatch(events)
        ELSE IF res = "not_ok" THEN ExitEarly(events)
        ELSE /\ events' = send(send(events, Log), Log)
             /\ pc' = "extract"
             /\ UNCHANGED <<closeCalls, startThrew>>
    /\ UNCHANGED <<route, now, chunkSizePages, totalPages, totalChunks, b, unit,
                   abandoned, faults, translated, failedChunks, translatedSoFar,
                   chunkDurations, tokens, stored, result, hb>>
    /\ UNCHANGED <<textVars, apiVars, clientVars>>

\* route.ts:441-487: extract text and page count, split into units, send init
Extract ==
    /\ route = "batch"
    /\ pc = "extract"
    /\ \E parse \in {"ok", "fallback_ok", "fallback_fail", "throws"},
          pages \in 0..MaxPages, empty \in BOOLEAN, dur \in SetupDurations :
        /\ parse = "fallback_ok" => faults < MaxFaults
        /\ LET logs == IF parse = "ok" THEN send(send(events, Log), Log)
                        ELSE send(send(send(send(events, Log), Log), Log), Log)
               n == NumGroups(NumPageTexts(Max(1, pages)), Max(1, chunkSizePages))
           IN
           /\ now' = now + dur
           /\ IF parse = "throws" THEN
                  /\ ExitCatch(events)
                  /\ UNCHANGED <<totalPages, totalChunks, unit>>
              ELSE IF parse = "fallback_fail" \/ empty THEN
                  /\ ExitEarly(logs)
                  /\ UNCHANGED <<totalPages, totalChunks, unit>>
              ELSE
                  /\ totalPages' = pages
                  /\ totalChunks' = n
                  /\ unit' = [k \in 0..(n - 1) |-> NewUnit]
                  /\ events' = send(logs, Ev("init", n, TRUE))
                  /\ pc' = "loop"
                  /\ UNCHANGED <<closeCalls, startThrew>>
        /\ faults' = IF parse = "fallback_ok" THEN faults + 1 ELSE faults
    /\ UNCHANGED <<route, chunkSizePages, b, abandoned, translated,
                   failedChunks, translatedSoFar, chunkDurations, tokens,
                   stored, result, hb>>
    /\ UNCHANGED <<textVars, apiVars, clientVars>>

\* ------------------------------------------- batch route: the unit executor
\* what the remote call of an attempt issued at time t may do while awaited
ResponseTimes(t) == {t + l : l \in Latencies} \cup {NoResponse}

\* route.ts:492-512 with withTimeout (368-380): one attempt starts; the remote
\* call is issued and raced against a timer of CHUNK_REQUEST_TIMEOUT_MS
IssueCall(u, t, resp) ==
    [u EXCEPT !.st = "calling", !.t0 = t, !.respondAt = resp,
              !.timeoutAt = t + CHUNK_REQUEST_TIMEOUT_MS, !.calls = @ + 1]

\* route.ts:551-556: is the failed attempt followed by another one
RetryAfter(u, kind) == u.attempt < CHUNK_REQUEST_RETRIES

\* mutant: the delay is doubled once more than the code doubles it
AttemptFailedDoubled(u, t, kind) ==
    IF RetryAfter(u, kind)
    THEN [u EXCEPT !.st = "backoff", !.errs = Append(@, kind),
                   !.backoffUntil = t + BackoffBaseMs * Pow2(u.attempt + 1),
                   !.waits = Append(@, BackoffBaseMs * Pow2(u.attempt + 1))]
    ELSE [u EXCEPT !.st = "fulfilled", !.errs = Append(@, kind),
                   !.ok = FALSE, !.text = <<>>, !.durationMs = Undefined,
                   !.usage = FALSE]

\* route.ts:534-561: the catch block of an attempt, and the return after the
\* last attempt; the error of kind `kind` was caught at time t
AttemptFailed(u, t, kind) ==
    IF RetryAfter(u, kind)
    THEN [u EXCEPT !.st = "backoff", !.errs = Append(@, kind),
                   !.backoffUntil = t + BackoffBaseMs * Pow2(u.attempt),
                   !.waits = Append(@, BackoffBaseMs * Pow2(u.attempt))]
    ELSE [u EXCEPT !.st = "fulfilled", !.errs = Append(@, kind),
                   !.ok = FALSE, !.text = <<>>, !.durationMs = Undefined,
                   !.usage = FALSE]

\* mutant: the catch block logs the error and sends no chunk event
AttemptFailedEventsLogOnly(evs, u, k, kind) ==
    LET pre == IF kind = "timeout" THEN send(evs, Log) ELSE evs
        body == send(pre, Log)
    IN IF RetryAfter(u, kind) THEN body ELSE send(body, Log)

\* the frames sent by the catch block (and by the return after the last attempt)
AttemptFailedEvents(evs, u, k, kind) ==
    LET pre == IF kind = "timeout" THEN send(evs, Log) ELSE evs
        body == send(send(pre, Log), Ev("chunk", IndexOf(k), FALSE))
    IN IF RetryAfter(u, kind) THEN body ELSE send(body, Log)

\* route.ts:514-533: the call resolved; content is the text of the completion
AttemptSucceeded(u, t, k, content) ==
    [u EXCEPT !.st = "fulfilled", !.ok = TRUE,
              !.text = IF content = "text" THEN <<IndexOf(k)>> ELSE <<>>,
              !.durationMs = t - u.t0, !.usage = TRUE]

UnitFrame == <<route, chunkSizePages, totalPages, totalChunks, b, translated,
               failedChunks, translatedSoFar, chunkDurations, tokens,
               closeCalls, startThrew, stored, result, hb, pc, now,
               fullText, ret, apiVars, clientVars>>

\* mutant: the task itself counts its unit as translated when its call resolves
CallResolvesCounts(k) ==
    /\ route = "batch"
    /\ pc = "join"
    /\ unit[k].st = "calling"
    /\ unit[k].respondAt = now
    /\ \E content \in {"text", "empty"} :
        /\ content = "empty" => faults < MaxFaults
        /\ faults' = IF content = "empty" THEN faults + 1 ELSE faults
        /\ unit' = [unit EXCEPT ![k] = AttemptSucceeded(@, now, k, content)]
        /\ events' = send(events, Ev("chunk", IndexOf(k), TRUE))
    /\ translatedSoFar' = translatedSoFar + 1
    /\ UNCHANGED <<abandoned, route, chunkSizePages, totalPages, totalChunks,
                   b, translated, failedChunks, chunkDurations, tokens,
                   closeCalls, startThrew, stored, result, hb, pc, now,
                   fullText, ret, apiVars, clientVars>>

CallResolves(k) ==
    /\ route = "batch"
    /\ pc = "join"
    /\ unit[k].st = "calling"
    /\ unit[k].respondAt = now
    /\ \E content \in {"text", "empty"} :
        /\ content = "empty" => faults < MaxFaults
        /\ faults' = IF content = "empty" THEN faults + 1 ELSE faults
        /\ unit' = [unit EXCEPT ![k] = AttemptSucceeded(@, now, k, content)]
        /\ events' = send(events, Ev("chunk", IndexOf(k), TRUE))
    /\ UNCHANGED abandoned
    /\ UNCHANGED UnitFrame

CallRejects(k) ==
    /\ route = "batch"
    /\ pc = "join"
    /\ unit[k].st = "calling"
    /\ unit[k].respondAt = now
    /\ faults < MaxFaults
    /\ \E kind \in {"retriable", "permanent"} :
        /\ unit' = [unit EXCEPT ![k] = AttemptFailed(@, now, kind)]
        /\ events' = AttemptFailedEvents(events, unit[k], k, kind)
    /\ faults' = faults + 1
    /\ UNCHANGED abandoned
    /\ UNCHANGED UnitFrame

\* mutant: the call is awaited without a timer
TimeoutNeverFires(k) == FALSE /\ UNCHANGED vars

\* route.ts:371-374: the timer wins the race; the remote call is not cancelled
TimeoutFires(k) ==
    /\ route = "batch"
    /\ pc = "join"
    /\ unit[k].st = "calling"
    /\ unit[k].respondAt = NoResponse
    /\ unit[k].timeoutAt = now
    /\ unit' = [unit EXCEPT ![k] = AttemptFailed(@, now, "timeout")]
    /\ events' = AttemptFailedEvents(events, unit[k], k, "timeout")
    /\ abandoned' = abandoned + 1
    /\ UNCHANGED faults
    /\ UNCHANGED UnitFrame

\* route.ts:553-555 then 492-512: the backoff delay ends, the next attempt starts
BackoffEnds(k) ==
    /\ route = "batch"
    /\ pc = "join"
    /\ unit[k].st = "backoff"
    /\ unit[k].backoffUntil = now
    /\ \E resp \in ResponseTimes(now) :
        /\ resp = NoResponse => faults < MaxFaults
        /\ faults' = IF resp = NoResponse THEN faults + 1 ELSE faults
        /\ unit' = [unit EXCEPT ![k] =
                       IssueCall([@ EXCEPT !.attempt = @ + 1], now, resp)]
    /\ events' = send(events, Log)
    /\ UNCHANGED abandoned
    /\ UNCHANGED UnitFrame

SomeCallResolves == \E k \in DOMAIN unit : CallResolves(k)
SomeCallRejects == \E k \in DOMAIN unit : CallRejects(k)
SomeTimeoutFires == \E k \in DOMAIN unit : TimeoutFires(k)
SomeBackoffEnds == \E k \in DOMAIN unit : BackoffEnds(k)

\* a remote call that was dropped by its timeout resolves or rejects later;
\* nothing awaits it any more
AbandonedSettles ==
    /\ abandoned > 0
    /\ abandoned' = abandoned - 1
    /\ UNCHANGED <<route, pc, now, chunkSizePages, totalPages, totalChunks, b,
                   unit, faults, translated, failedChunks, translatedSoFar,
                   chunkDurations, tokens, events, closeCalls, startThrew,
                   stored, result, hb>>
    /\ UNCHANGED <<textVars, apiVars, clientVars>>

\* --------------------------------------------- batch route: the scheduler
\* mutant: the time-limit test never stops the loop
DeadlineNeverPassed(t) == FALSE

\* route.ts:580 and 651: the time-limit test on the elapsed time t
DeadlinePassed(t) == t > HARD_TIME_LIMIT_MS

\* mutant: the join stops waiting for the batch once the time limit has passed
AllSettledOrDeadline(bb) ==
    \/ \A k \in BatchUnits(bb) : unit[k].st \in {"fulfilled", "rejected"}
    \/ DeadlinePassed(now)

\* route.ts:600: await Promise.allSettled(tasks) resumes
AllSettled(bb) ==
    \A k \in BatchUnits(bb) : unit[k].st \in {"fulfilled", "rejected"}

\* route.ts:575-600: loop test, time-limit test, then every task of the batch
\* runs up to its first await (the remote call of attempt 1)
AdmitBatch ==
    /\ route = "batch"
    /\ pc = "loop"
    /\ \/ /\ b >= NumBatches
          /\ pc' = "afterLoop"
          /\ UNCHANGED <<unit, events, faults>>
       \/ /\ b < NumBatches
          /\ DeadlinePassed(now)
          /\ events' = send(events, Log)
          /\ pc' = "afterLoop"
          /\ UNCHANGED <<unit, faults>>
       \/ /\ b < NumBatches
          /\ ~DeadlinePassed(now)
          /\ \E f \in [BatchUnits(b) -> ResponseTimes(now)] :
              LET silent == Cardinality({k \in BatchUnits(b) : f[k] = NoResponse})
              IN /\ faults + silent <= MaxFaults
                 /\ faults' = faults + silent
                 /\ unit' = [k \in DOMAIN unit |->
                               IF k \in BatchUnits(b)
                               THEN IssueCall([unit[k] EXCEPT !.admittedAt = now,
                                                              !.admits = @ + 1],
                                              now, f[k])
                               ELSE unit[k]]
          /\ events' = sendN(send(events, Log), Log, Cardinality(BatchUnits(b)))
          /\ pc' = "join"
    /\ UNCHANGED <<route, now, chunkSizePages, totalPages, totalChunks, b,
                   abandoned, translated, failedChunks, translatedSoFar,
                   chunkDurations, tokens, closeCalls, startThrew, stored,
                   result, hb>>
    /\ UNCHANGED <<textVars, apiVars, clientVars>>

\* the instant at which the pending timer or call of a unit is due
Due(u) ==
    IF u.st = "calling"
    THEN (IF u.respondAt # NoResponse THEN u.respondAt ELSE u.timeoutAt)
    ELSE u.backoffUntil
Pending == {k \in DOMAIN unit : unit[k].st \in {"calling", "backoff"}}

\* the run awaits; the clock moves to the next instant something is due
Advance ==
    /\ route = "batch"
    /\ pc = "join"
    /\ Pending # {}
    /\ \A k \in Pending : Due(unit[k]) > now
    /\ now' = SetMin({Due(unit[k]) : k \in Pending})
    /\ UNCHANGED <<route, pc, chunkSizePages, totalPages, totalChunks, b, unit,
                   abandoned, faults, translated, failedChunks, translatedSoFar,
                   chunkDurations, tokens, events, closeCalls, startThrew,
                   stored, result, hb>>
    /\ UNCHANGED <<textVars, apiVars, clientVars>>

\* mutant: the result of a failed unit is skipped by the join
JoinOneDropsFailed(rs, k) ==
    LET u == unit[k]
        sofar == rs.translatedSoFar + 1
    IN IF u.st = "fulfilled" /\ u.ok
       THEN [translated |-> Append(rs.translated, u.text),
             failedChunks |-> rs.failedChunks,
             translatedSoFar |-> sofar,
             chunkDurations |-> Append(rs.chunkDurations, u.durationMs),
             tokens |-> [prompt |-> rs.tokens.prompt + 1,
                         completion |-> rs.tokens.completion + 1],
             events |-> send(send(rs.events, Ev("progress", sofar, TRUE)),
                             Ev("metrics", rs.failedChunks, TRUE))]
       ELSE rs

\* mutant: translatedSoFar counts the successful units only
JoinOneCountsSuccesses(rs, k) ==
    LET u == unit[k]
        fulfilled == u.st = "fulfilled"
        failed == IF fulfilled THEN (IF u.ok THEN 0 ELSE 1) ELSE 1
        sofar == rs.translatedSoFar + 1 - failed
        evs0 == IF fulfilled THEN rs.events ELSE send(rs.events, Log)
    IN [translated |-> Append(rs.translated, IF fulfilled THEN u.text ELSE <<>>),
        failedChunks |-> rs.failedChunks + failed,
        translatedSoFar |-> sofar,
        chunkDurations |-> IF fulfilled /\ u.durationMs # Undefined
                           THEN Append(rs.chunkDurations, u.durationMs)
                           ELSE rs.chunkDurations,
        tokens |-> IF fulfilled /\ u.usage
                   THEN [prompt |-> rs.tokens.prompt + 1,
                         completion |-> rs.tokens.completion + 1]
                   ELSE rs.tokens,
        events |-> send(send(evs0, Ev("progress", sofar, TRUE)),
                        Ev("metrics", rs.failedChunks + failed, TRUE))]

\* route.ts:602-646: the body of `for (const r of results)` for the task of unit k
JoinOne(rs, k) ==
    LET u == unit[k]
        fulfilled == u.st = "fulfilled"
        failed == IF fulfilled THEN (IF u.ok THEN 0 ELSE 1) ELSE 1
        sofar == rs.translatedSoFar + 1
        evs0 == IF fulfilled THEN rs.events ELSE send(rs.events, Log)
    IN [translated |-> Append(rs.translated, IF fulfilled THEN u.text ELSE <<>>),
        failedChunks |-> rs.failedChunks + failed,
        translatedSoFar |-> sofar,
        chunkDurations |-> IF fulfilled /\ u.durationMs # Undefined
                           THEN Append(rs.chunkDurations, u.durationMs)
                           ELSE rs.chunkDurations,
        tokens |-> IF fulfilled /\ u.usage
                   THEN [prompt |-> rs.tokens.prompt + 1,
                         completion |-> rs.tokens.completion + 1]
                   ELSE rs.tokens,
        events |-> send(send(evs0, Ev("progress", sofar, TRUE)),
                        Ev("metrics", rs.failedChunks + failed, TRUE))]

RECURSIVE JoinResults(_, _, _)
\* the results of the tasks k, k+1, .. last, in the order of the batch
JoinResults(rs, k, last) ==
    IF k > last THEN rs ELSE JoinResults(JoinOne(rs, k), k + 1, last)

\* route.ts:600-659: the join of a batch, and the time-limit test after it
JoinBatch ==
    /\ route = "batch"
    /\ pc = "join"
    /\ AllSettled(b)
    /\ LET first == b * PARALLEL_LIMIT
           last == Min(first + PARALLEL_LIMIT, totalChunks) - 1
           rs == JoinResults([translated |-> translated,
                              failedChunks |-> failedChunks,
                              translatedSoFar |-> translatedSoFar,
                              chunkDurations |-> chunkDurations,
                              tokens |-> tokens, events |-> events],
                             first, last)
       IN /\ translated' = rs.translated
          /\ failedChunks' = rs.failedChunks
          /\ translatedSoFar' = rs.translatedSoFar
          /\ chunkDurations' = rs.chunkDurations
          /\ tokens' = rs.tokens
          /\ IF DeadlinePassed(now)
             THEN /\ events' = send(send(rs.events, Log), Log)
                  /\ pc' = "afterLoop"
                  /\ UNCHANGED b
             ELSE /\ events' = send(rs.events, Log)
                  /\ pc' = "loop"
                  /\ b' = b + 1
    /\ UNCHANGED <<route, now, chunkSizePages, totalPages, totalChunks, unit,
                   abandoned, faults, closeCalls, startThrew, stored, result, hb>>
    /\ UNCHANGED <<textVars, apiVars, clientVars>>

\* route.ts:683: translated.filter((t) => !!(t && t.trim().length)).length
RECURSIVE CountNonBlank(_)
CountNonBlank(ts) ==
    IF ts = <<>> THEN 0
    ELSE (IF Head(ts) # <<>> THEN 1 ELSE 0) + CountNonBlank(Tail(ts))

\* route.ts:662: the test that decides between the error and the document
NothingTranslated(ts) == Len(ts) = 0

\* route.ts:689
Partial(ts, total, elapsed) ==
    Len(ts) < total \/ elapsed >= RoundSeconds(HARD_TIME_LIMIT_MS)

\* mutant: the estimate is reported without the cap at totalPages
PagesProcessedUncapped(successful, size, pages) ==
    successful * Max(1, size)

\* route.ts:684-687
PagesProcessed(successful, size, pages) ==
    LET estimated == successful * Max(1, size)
    IN IF pages > 0 THEN Min(pages, estimated) ELSE estimated

\* route.ts:661-669
AfterLoop ==
    /\ route = "batch"
    /\ pc = "afterLoop"
    /\ IF NothingTranslated(translated)
       THEN ExitEarly(events)
       ELSE /\ events' = send(events, Ev("building", 0, TRUE))
            /\ pc' = "build"
            /\ UNCHANGED <<closeCalls, startThrew>>
    /\ UNCHANGED <<route, now, chunkSizePages, totalPages, totalChunks, b, unit,
                   abandoned, faults, translated, failedChunks, translatedSoFar,
                   chunkDurations, tokens, stored, result, hb>>
    /\ UNCHANGED <<textVars, apiVars, clientVars>>

\* route.ts:670-726: build and upload the document, send the final frames;
\* buildAndUploadDocx is awaited without a timeout: when the upload never
\* settles ("hang") the run stays at that await
Build ==
    /\ route = "batch"
    /\ pc = "build"
    /\ \E out \in {"ok", "fail", "hang"}, dur \in BuildDurations :
        /\ now' = now + dur
        /\ IF out = "hang"
           THEN /\ pc' = "storing"
                /\ UNCHANGED <<events, closeCalls, startThrew, stored, result>>
           ELSE IF out = "fail"
           THEN /\ ExitEarly(events)
                /\ UNCHANGED <<stored, result>>
           ELSE LET elapsed == RoundSeconds(now')
                    successful == CountNonBlank(translated)
                    partial == Partial(translated, totalChunks, elapsed)
                IN /\ stored' = stored + 1
                   /\ result' = [set |-> TRUE, partial |-> partial,
                                 failedChunks |-> failedChunks,
                                 pagesProcessed |->
                                     PagesProcessed(successful, chunkSizePages,
                                                    totalPages),
                                 elapsedSeconds |-> elapsed,
                                 totalChunksCompleted |-> Len(translated)]
                   /\ events' = send(send(events, Ev("metrics_final", failedChunks, TRUE)),
                                     Ev("completed", failedChunks, ~partial))
                   /\ closeCalls' = closeCalls + 1
                   /\ startThrew' = (startThrew \/ CloseThrows(closeCalls))
                   /\ pc' = "done"
    /\ UNCHANGED <<route, chunkSizePages, totalPages, totalChunks, b, unit,
                   abandoned, faults, translated, failedChunks, translatedSoFar,
                   chunkDurations, tokens, hb>>
    /\ UNCHANGED <<textVars, apiVars, clientVars>>

\* ------------------------------------------------------------ retry route
\* cleanup/route.ts:153, 159, 170, 199, 280: clearInterval(hb)
\* mutant: the interval timer is left running
ClearIntervalNoop(h) == h
ClearInterval(h) == [h EXCEPT !.active = FALSE]

RetryFrame == <<route, chunkSizePages, abandoned, failedChunks,
                translatedSoFar, chunkDurations, tokens, fullText, ret,
                apiVars, clientVars>>

\* cleanup/route.ts:143-163: start the heartbeat, parse and validate the request
RValidate ==
    /\ route = "retry"
    /\ pc = "start"
    /\ \E req \in {"ok", "throws", "no_upload", "no_key"} :
        IF req = "throws" THEN
            /\ ExitCatch(events)
            /\ hb' = ClearInterval([active |-> TRUE, next |-> now + HeartbeatMs])
        ELSE IF req # "ok" THEN
            /\ ExitEarly(events)
            /\ hb' = ClearInterval([active |-> TRUE, next |-> now + HeartbeatMs])
        ELSE
            /\ hb' = [active |-> TRUE, next |-> now + HeartbeatMs]
            /\ pc' = "head"
            /\ UNCHANGED <<events, closeCalls, startThrew>>
    /\ UNCHANGED <<now, totalPages, totalChunks, b, unit, faults, translated,
                   stored, result>>
    /\ UNCHANGED RetryFrame

\* cleanup/route.ts:165-205: find the upload, extract the pages, group them
RExtract ==
    /\ route = "retry"
    /\ pc = "head"
    /\ \E meta \in {"found", "missing"}, parse \in {"ok", "throws"},
          pages \in RetryPageCounts :
        LET n == NumGroups(pages, RetryGroupSize)
            progressed == send(events, Ev("progress", 0, TRUE))
        IN
        IF meta = "missing" THEN
            /\ ExitEarly(events)
            /\ hb' = ClearInterval(hb)
            /\ UNCHANGED <<totalPages, totalChunks, unit>>
        ELSE IF parse = "throws" THEN
            /\ ExitCatch(progressed)
            /\ hb' = ClearInterval(hb)
            /\ UNCHANGED <<totalPages, totalChunks, unit>>
        ELSE IF pages = 0 THEN
            /\ ExitEarly(progressed)
            /\ hb' = ClearInterval(hb)
            /\ UNCHANGED <<totalPages, totalChunks, unit>>
        ELSE
            /\ totalPages' = pages
            /\ totalChunks' = n
            /\ unit' = [k \in 0..(n - 1) |-> NewUnit]
            /\ events' = progressed
            /\ pc' = "rloop"
            /\ UNCHANGED <<hb, closeCalls, startThrew>>
    /\ UNCHANGED <<now, b, faults, translated, stored, result>>
    /\ UNCHANGED RetryFrame

\* mutant: the loop does not await withRetry and goes on to the next chunk
RLoopNoAwait ==
    /\ route = "retry"
    /\ pc = "rloop"
    /\ IF b < totalChunks
       THEN /\ \E lat \in RetryLatencies :
                unit' = [unit EXCEPT ![b] =
                    [@ EXCEPT !.st = "calling", !.t0 = now, !.calls = @ + 1,
                              !.respondAt = now + lat, !.admittedAt = now,
                              !.admits = @ + 1]]
            /\ events' = send(events, Ev("progress", b + 1, TRUE))
            /\ b' = b + 1
            /\ UNCHANGED pc
       ELSE /\ events' = send(events, Ev("building", 0, TRUE))
            /\ pc' = "rbuild"
            /\ UNCHANGED <<unit, b>>
    /\ UNCHANGED <<now, totalPages, totalChunks, faults, translated, hb,
                   closeCalls, startThrew, stored, result>>
    /\ UNCHANGED RetryFrame

\* cleanup/route.ts:208-230, 235: the loop test; a progress frame and the first
\* call of withRetry for chunk i, or the building frame after the last chunk
RLoop ==
    /\ route = "retry"
    /\ pc = "rloop"
    /\ IF b < totalChunks
       THEN /\ \E lat \in RetryLatencies :
                unit' = [unit EXCEPT ![b] =
                    [@ EXCEPT !.st = "calling", !.t0 = now, !.calls = @ + 1,
                              !.respondAt = now + lat, !.admittedAt = now,
                              !.admits = @ + 1]]
            /\ events' = send(events, Ev("progress", b + 1, TRUE))
            /\ pc' = "rwait"
       ELSE /\ events' = send(events, Ev("building", 0, TRUE))
            /\ pc' = "rbuild"
            /\ UNCHANGED unit
    /\ UNCHANGED <<now, totalPages, totalChunks, b, faults, translated, hb,
                   closeCalls, startThrew, stored, result>>
    /\ UNCHANGED RetryFrame

\* cleanup/route.ts:229-232: the call resolved; withRetry returns its text
RCallResolves ==
    /\ route = "retry"
    /\ pc = "rwait"
    /\ unit[b].st = "calling"
    /\ unit[b].respondAt = now
    /\ \E content \in {"text", "empty"} :
        /\ content = "empty" => faults < MaxRetryFaults
        /\ faults' = IF content = "empty" THEN faults + 1 ELSE faults
        /\ unit' = [unit EXCEPT ![b] =
                       [@ EXCEPT !.st = "fulfilled", !.ok = TRUE,
                                 !.text = IF content = "text" THEN <<b + 1>> ELSE <<>>]]
        /\ translated' = Append(translated,
                                IF content = "text" THEN <<b + 1>> ELSE <<>>)
    /\ b' = b + 1
    /\ pc' = "rloop"
    /\ UNCHANGED <<now, totalPages, totalChunks, events, hb, closeCalls,
                   startThrew, stored, result>>
    /\ UNCHANGED RetryFrame

\* cleanup/route.ts:119-121: withRetry tries again after the i-th failure
RetriableStatus(kind) == kind = "retriable"
\* mutant: the loop does not stop retrying at its last iteration
WithRetryNoLast(i, kind) == RetriableStatus(kind)
WithRetryAgain(i, kind) == RetriableStatus(kind) /\ i # RetryAttempts - 1

\* cleanup/route.ts:117-124, 273-282: the call rejected; withRetry waits and
\* tries again, or rethrows into the catch block of start()
RCallRejects ==
    /\ route = "retry"
    /\ pc = "rwait"
    /\ unit[b].st = "calling"
    /\ unit[b].respondAt = now
    /\ faults < MaxRetryFaults
    /\ faults' = faults + 1
    /\ \E kind \in {"retriable", "permanent"}, jitter \in Jitters :
        LET wait == RetryBaseMs * Pow2(unit[b].attempt) + jitter IN
        IF WithRetryAgain(unit[b].attempt, kind)
        THEN /\ unit' = [unit EXCEPT ![b] =
                    [@ EXCEPT !.st = "backoff", !.errs = Append(@, kind),
                              !.backoffUntil = now + wait,
                              !.waits = Append(@, wait)]]
             /\ UNCHANGED <<events, closeCalls, startThrew, pc, hb>>
        ELSE /\ unit' = [unit EXCEPT ![b] =
                    [@ EXCEPT !.st = "rejected", !.errs = Append(@, kind)]]
             /\ ExitCatch(events)
             /\ hb' = ClearInterval(hb)
    /\ UNCHANGED <<now, totalPages, totalChunks, b, translated, stored, result>>
    /\ UNCHANGED RetryFrame

\* cleanup/route.ts:123 then 116: the wait ends, fn is called again
RBackoffEnds ==
    /\ route = "retry"
    /\ pc = "rwait"
    /\ unit[b].st = "backoff"
    /\ unit[b].backoffUntil = now
    /\ \E lat \in RetryLatencies :
        unit' = [unit EXCEPT ![b] =
            [@ EXCEPT !.st = "calling", !.attempt = @ + 1, !.t0 = now,
                      !.calls = @ + 1, !.respondAt = now + lat]]
    /\ UNCHANGED <<now, totalPages, totalChunks, b, faults, translated, events,
                   hb, closeCalls, startThrew, stored, result, pc>>
    /\ UNCHANGED RetryFrame

\* cleanup/route.ts:147: the interval timer fires
Heartbeat ==
    /\ route = "retry"
    /\ hb.active
    /\ hb.next = now
    /\ events' = send(events, Ev("heartbeat", 0, TRUE))
    /\ hb' = [hb EXCEPT !.next = now + HeartbeatMs]
    /\ UNCHANGED <<now, totalPages, totalChunks, b, unit, faults, translated,
                   closeCalls, startThrew, stored, result, pc>>
    /\ UNCHANGED RetryFrame

\* the retry route awaits a call or a wait; the clock moves to the next instant
\* at which that or the heartbeat is due
RAdvance ==
    /\ route = "retry"
    /\ pc = "rwait"
    /\ Due(unit[b]) > now
    /\ hb.active => hb.next > now
    /\ now' = IF hb.active THEN Min(Due(unit[b]), hb.next) ELSE Due(unit[b])
    /\ UNCHANGED <<totalPages, totalChunks, b, unit, faults, translated, events,
                   hb, closeCalls, startThrew, stored, result, pc>>
    /\ UNCHANGED RetryFrame

\* cleanup/route.ts:237-282: build and store the document, send completed
RBuild ==
    /\ route = "retry"
    /\ pc = "rbuild"
    /\ \E out \in {"ok", "throws"} :
        IF out = "throws"
        THEN /\ ExitCatch(events)
             /\ UNCHANGED <<stored, result>>
        ELSE /\ stored' = stored + 1
             /\ result' = [NoResult EXCEPT !.set = TRUE,
                                           !.pagesProcessed = totalPages]
             /\ events' = send(events, Ev("completed", 0, TRUE))
             /\ closeCalls' = closeCalls + 1
             /\ startThrew' = (startThrew \/ CloseThrows(closeCalls))
             /\ pc' = "done"
    /\ hb' = ClearInterval(hb)
    /\ UNCHANGED <<now, totalPages, totalChunks, b, unit, faults, translated>>
    /\ UNCHANGED RetryFrame

\* ============================================================ text functions
\* Strings are sequences of characters.  The alphabet has two letters, the
\* white space the code meets (space, LF, CR, U+2028, U+FEFF), a control
\* character of the class [\x00-\x08\x0B\x0C\x0E-\x1F], DEL (\x7F) and a
\* lone surrogate; "FFFD" is the replacement character a UTF-8 round trip
\* puts for the latter.
MaxTextLen == 3
Chars == {"a", "b", "SP", "LF", "CR", "LS", "BOM", "NUL", "DEL", "HS"}
Texts == UNION {[1..n -> Chars] : n \in 0..MaxTextLen}
\* max of chunkText; numPages of the extractor
Budgets == 1..(MaxTextLen + 1)
PageCounts == 0..(MaxTextLen + 1)
GroupSizes == {1, 2, RetryGroupSize}

\* white space of String.prototype.trim; what `.` of a RegExp does not match
IsWhitespace(c) == c \in {"SP", "LF", "CR", "LS", "BOM"}
IsLineTerminator(c) == c \in {"LF", "CR", "LS"}

RECURSIVE TrimStart(_)
TrimStart(s) ==
    IF s # <<>> /\ IsWhitespace(Head(s)) THEN TrimStart(Tail(s)) ELSE s
RECURSIVE TrimEnd(_)
TrimEnd(s) ==
    IF s # <<>> /\ IsWhitespace(s[Len(s)])
    THEN TrimEnd(SubSeq(s, 1, Len(s) - 1)) ELSE s
\* s.trim()
Trim(s) == TrimEnd(TrimStart(s))

\* s.slice(start, end) for 0 <= start, 0 <= end
Slice(s, start, end) == SubSeq(s, Min(start, Len(s)) + 1, Min(end, Len(s)))

RECURSIVE Concat(_)
\* parts.join("")
Concat(parts) == IF parts = <<>> THEN <<>> ELSE Head(parts) \o Concat(Tail(parts))

RECURSIVE Join(_, _)
\* parts.join(sep)
Join(parts, sep) ==
    IF parts = <<>> THEN <<>>
    ELSE IF Len(parts) = 1 THEN Head(parts)
    ELSE Head(parts) \o sep \o Join(Tail(parts), sep)

\* ------------------------------------------------------------- sanitation
ControlChars == {"NUL"}

\* s.replace(/[...]/g, "")
RemoveChars(s, bad) == SelectSeq(s, LAMBDA c : c \notin bad)

RECURSIVE ReplaceCRLF(_)
\* s.replace(/\r\n/g, "\n")
ReplaceCRLF(s) ==
    IF s = <<>> THEN <<>>
    ELSE IF Len(s) >= 2 /\ s[1] = "CR" /\ s[2] = "LF"
    THEN <<"LF">> \o ReplaceCRLF(SubSeq(s, 3, Len(s)))
    ELSE <<Head(s)>> \o ReplaceCRLF(Tail(s))

\* s.replace(/\r/g, "\n")
ReplaceCR(s) == [i \in 1..Len(s) |-> IF s[i] = "CR" THEN "LF" ELSE s[i]]

\* new TextDecoder("utf-8", {fatal: false}).decode(Buffer.from(s, "utf8")):
\* Buffer.from encodes a lone surrogate as U+FFFD; the decoder (ignoreBOM is
\* false) drops a byte order mark at the start of its input
Utf8RoundTrip(s) ==
    LET bytes == [i \in 1..Len(s) |-> IF s[i] = "HS" THEN "FFFD" ELSE s[i]]
    IN IF bytes # <<>> /\ Head(bytes) = "BOM" THEN Tail(bytes) ELSE bytes

\* route.ts:229-234
sanitize(s) == ReplaceCR(ReplaceCRLF(RemoveChars(s, ControlChars)))

\* route.ts:50-55
sanitizeDocx(s) ==
    ReplaceCR(ReplaceCRLF(RemoveChars(s, ControlChars \cup {"DEL"})))

\* cleanup/route.ts:102-109
sanitizeForDocx(s) ==
    IF s = <<>> THEN <<>>
    ELSE Utf8RoundTrip(ReplaceCR(ReplaceCRLF(RemoveChars(s, ControlChars))))

Sanitizers == {"sanitize", "sanitizeDocx", "sanitizeForDocx"}
\* the sanitation function named f, and the characters its first replace removes
SanitizeBy(f, s) ==
    IF f = "sanitize" THEN sanitize(s)
    ELSE IF f = "sanitizeDocx" THEN sanitizeDocx(s)
    ELSE sanitizeForDocx(s)
RemovedBy(f) ==
    IF f = "sanitizeDocx" THEN ControlChars \cup {"DEL"} ELSE ControlChars

\* ----------------------------------------------- character-budget chunker
RECURSIVE SplitLines(_, _)
SplitLines(s, cur) ==
    IF s = <<>> THEN <<cur>>
    ELSE IF Head(s) = "LF" THEN <<cur>> \o SplitLines(Tail(s), <<>>)
    ELSE SplitLines(Tail(s), Append(cur, Head(s)))
\* text.split("\n")
Split(text) == SplitLines(text, <<>>)

\* text.split("\n").filter(p => p.trim())
Paragraphs(text) == SelectSeq(Split(text), LAMBDA p : Trim(p) # <<>>)

RECURSIVE MatchAll(_, _, _)
\* the matches of /.{1,max}/g in s, left to right and greedy; cur is the match
\* being extended
MatchAll(s, max, cur) ==
    LET done == IF cur = <<>> THEN <<>> ELSE <<cur>> IN
    IF s = <<>> THEN done
    ELSE IF IsLineTerminator(Head(s)) THEN done \o MatchAll(Tail(s), max, <<>>)
    ELSE IF Len(cur) = max THEN <<cur>> \o MatchAll(s, max, <<>>)
    ELSE MatchAll(Tail(s), max, Append(cur, Head(s)))

\* mutant: a paragraph longer than max is not split
HardSplitNone(p, max) == <<p>>

\* mutant: match without the g flag, only the first piece is kept
HardSplitFirstOnly(p, max) ==
    LET m == MatchAll(p, max, <<>>) IN IF m = <<>> THEN <<p>> ELSE <<Head(m)>>

\* p.match(new RegExp(`.{1,${max}}`, "g")) ?? [p]
HardSplit(p, max) ==
    LET m == MatchAll(p, max, <<>>) IN IF m = <<>> THEN <<p>> ELSE m

\* if (buf.trim()) chunks.push(buf.trim())
Flush(st) ==
    IF Trim(st.buf) # <<>> THEN Append(st.chunks, Trim(st.buf)) ELSE st.chunks

\* route.ts:65-69 and 74-78: flush the buffer if the part does not fit, then
\* append the part and a line feed
AddPart(st, part, max) ==
    LET kept == IF Len(st.buf) + Len(part) + 1 > max
                THEN [chunks |-> Flush(st), buf |-> <<>>]
                ELSE st
    IN [kept EXCEPT !.buf = @ \o part \o <<"LF">>]

RECURSIVE AddParts(_, _, _)
AddParts(st, parts, max) ==
    IF parts = <<>> THEN st
    ELSE AddParts(AddPart(st, Head(parts), max), Tail(parts), max)

RECURSIVE ChunkParas(_, _, _)
\* route.ts:61-79: the loop over the paragraphs, with its two branches
ChunkParas(st, paras, max) ==
    IF paras = <<>> THEN st
    ELSE LET p == Head(paras)
             next == IF Len(p) > max
                     THEN AddParts(st, HardSplit(p, max), max)
                     ELSE AddPart(st, p, max)
         IN ChunkParas(next, Tail(paras), max)

\* route.ts:57-81 (the same function is src/unnamed/part_001:56-80)
chunkText(text, max) ==
    Flush(ChunkParas([chunks |-> <<>>, buf |-> <<>>], Paragraphs(text), max))

RECURSIVE ChunkParasUnified(_, _, _)
\* src/unnamed/part_002:20-29: one loop body for short and long paragraphs
ChunkParasUnified(st, paras, max) ==
    IF paras = <<>> THEN st
    ELSE LET p == Head(paras)
             parts == IF Len(p) > max THEN HardSplit(p, max) ELSE <<p>>
         IN ChunkParasUnified(AddParts(st, parts, max), Tail(paras), max)

\* mutant: the buffer left after the loop is not flushed
chunkTextUnifiedNoFlush(text, max) ==
    ChunkParasUnified([chunks |-> <<>>, buf |-> <<>>], Paragraphs(text), max).chunks

\* src/unnamed/part_002:16-32
chunkTextUnified(text, max) ==
    Flush(ChunkParasUnified([chunks |-> <<>>, buf |-> <<>>], Paragraphs(text), max))

\* ------------------------------------------------------ page-mode chunker
\* route.ts:239-246: the slices fullText.slice(start, end) of the pages
PageSlices(text, numPages) ==
    LET len == IF Len(text) = 0 THEN 1 ELSE Len(text)
        per == CeilDiv(len, numPages)
    IN [i \in 1..numPages |-> Slice(text, (i - 1) * per, Min(i * per, len))]

\* mutant: the page length is rounded down
splitTextByPagesFloor(text, numPages) ==
    IF numPages <= 1 THEN <<text>>
    ELSE LET len == IF Len(text) = 0 THEN 1 ELSE Len(text)
             per == len \div numPages
         IN [i \in 1..numPages |->
                Trim(Slice(text, (i - 1) * per, Min(i * per, len)))]

\* route.ts:237-249
splitTextByPages(text, numPages) ==
    IF numPages <= 1 THEN <<text>>
    ELSE [i \in 1..numPages |-> Trim(PageSlices(text, numPages)[i])]

RECURSIVE GroupFrom(_, _, _)
\* for (let i = ...; i < arr.length; i += size) res.push(arr.slice(i, i + size))
GroupFrom(arr, size, i) ==
    IF i >= Len(arr) THEN <<>>
    ELSE <<Slice(arr, i, i + size)>> \o GroupFrom(arr, size, i + size)

\* mutant: each group stops one element early
groupByShort(arr, size) ==
    [g \in 1..Len(GroupFrom(arr, size, 0)) |->
        SubSeq(GroupFrom(arr, size, 0)[g], 1, Max(1, size - 1))]

\* route.ts:251-255
groupBy(arr, size) == GroupFrom(arr, size, 0)

\* route.ts:594: textChunk = pages.join("\n\n"), for every group
UnitTexts(groups) ==
    [g \in 1..Len(groups) |-> Join(groups[g], <<"LF", "LF">>)]

\* cleanup/route.ts:130-136
groupPages(pages, groupSize) == UnitTexts(GroupFrom(pages, groupSize, 0))

\* ------------------------------------------------- calls of text functions
TextInit ==
    /\ route = "batch"
    /\ Fresh
    /\ fullText \in Texts
    /\ ret = NoRet
    /\ ApiFresh
    /\ tempDir = [f \in FileNames |-> Absent]
    /\ cleanupSecret = Unset
    /\ ClientFresh

\* a sanitation function is applied to the text
CallSanitize ==
    /\ ret.fn = "none"
    /\ \E f \in Sanitizers :
        ret' = [NoRet EXCEPT !.fn = f, !.out = <<SanitizeBy(f, fullText)>>]
    /\ UNCHANGED <<runVars, fullText, apiVars, clientVars>>

\* route.ts:57: chunkText(text, max)
CallChunkText ==
    /\ ret.fn = "none"
    /\ \E max \in Budgets :
        ret' = [NoRet EXCEPT !.fn = "chunkText", !.n = max,
                             !.pages = Paragraphs(fullText),
                             !.out = chunkText(fullText, max)]
    /\ UNCHANGED <<runVars, fullText, apiVars, clientVars>>

\* src/unnamed/part_002:16: chunkText(text, max)
CallChunkTextUnified ==
    /\ ret.fn = "none"
    /\ \E max \in Budgets :
        ret' = [NoRet EXCEPT !.fn = "chunkTextUnified", !.n = max,
                             !.pages = Paragraphs(fullText),
                             !.out = chunkTextUnified(fullText, max)]
    /\ UNCHANGED <<runVars, fullText, apiVars, clientVars>>

\* route.ts:470-481: the text is trimmed and not empty; it is split into
\* Math.max(1, totalPages || 1) pages, grouped by Math.max(1, chunkSizePages)
CallSplitTextByPages ==
    /\ ret.fn = "none"
    /\ fullText = Trim(fullText)
    /\ fullText # <<>>
    /\ \E numpages \in PageCounts, size \in ChunkSizes :
        LET np == Max(1, IF numpages = 0 THEN 1 ELSE numpages)
            pages == splitTextByPages(fullText, np)
            groups == groupBy(pages, Max(1, size))
        IN ret' = [fn |-> "splitTextByPages", n |-> numpages,
                   size |-> Max(1, size),
                   slices |-> IF np <= 1 THEN <<fullText>>
                              ELSE PageSlices(fullText, np),
                   pages |-> pages, groups |-> groups,
                   out |-> UnitTexts(groups)]
    /\ UNCHANGED <<runVars, fullText, apiVars, clientVars>>

\* cleanup/route.ts:185-205: pages has one string per page of the PDF (here
\* one character each) and is not empty; the pages are grouped
CallGroupPages ==
    /\ ret.fn = "none"
    /\ fullText # <<>>
    /\ \E size \in GroupSizes :
        LET pages == [i \in 1..Len(fullText) |-> <<fullText[i]>>]
        IN ret' = [NoRet EXCEPT !.fn = "groupPages", !.n = Len(pages),
                                !.size = size, !.pages = pages,
                                !.groups = groupBy(pages, size),
                                !.out = groupPages(pages, size)]
    /\ UNCHANGED <<runVars, fullText, apiVars, clientVars>>

TextNext ==
    \/ CallSanitize
    \/ CallChunkText
    \/ CallChunkTextUnified
    \/ CallSplitTextByPages
    \/ CallGroupPages

TextSpec == TextInit /\ [][TextNext]_vars

\* ======================================================= the API surface
\* src/middleware.ts and the POST handler at the head of
\* src/app/api/cleanup/route.ts, with the RateLimiter of
\* src/unnamed/part_008:161-214 (class RateLimiter: 171-214).
TranslatePath == "/api/translate"
CleanupPath == "/api/cleanup"
\* the instants at which requests arrive
Instants == {0, 1000, LimiterInterval, LimiterInterval + 1000,
             2 * LimiterInterval, TwentyFourHours, TwentyFourHours + 1}
\* mtime of the files found in temp
Mtimes == {0, LimiterInterval}
Secrets == {Unset, "", "s3cret"}
DefaultSecret == "cleanup-secret"
Headers == {NoHeader, Header("Bearer", "s3cret"), Header("Bearer", DefaultSecret),
            Header("Bearer", ""), Header("Bearer", Unset),
            Header("Basic", "s3cret"), Header("", "s3cret")}

\* part_008:207-213: cleanup(now) deletes the buckets not refilled for two
\* intervals
LimiterCleanup(map, t) ==
    [k \in DOMAIN map |->
        IF map[k].present /\ t - map[k].lastRefill > LimiterInterval * 2
        THEN NoBucket ELSE map[k]]

\* mutant: check stores the bucket before the test of its count
checkStoresFirst(map, limit, token, t, rnd) ==
    LET bucket == IF map[token].present THEN map[token]
                  ELSE [present |-> TRUE, count |-> 0, lastRefill |-> t]
        timePassed == t - bucket.lastRefill
        tokensToAdd == (timePassed \div LimiterInterval) * limit
        refilled == IF tokensToAdd > 0
                    THEN [bucket EXCEPT !.count = Min(limit, @ + tokensToAdd),
                                        !.lastRefill = t]
                    ELSE bucket
        taken == [map EXCEPT ![token] = [refilled EXCEPT !.count = @ - 1]]
    IN IF refilled.count < 1
       THEN [threw |-> TRUE, tokens |-> taken]
       ELSE [threw |-> FALSE,
             tokens |-> IF rnd THEN LimiterCleanup(taken, t) ELSE taken]

\* part_008:181-205: RateLimiter.check(limit, token) at Date.now() = t; rnd is
\* Math.random() < 0.01.  The bucket read from the Map is the known object,
\* so its refill is kept even when check throws; a bucket made by the default
\* of `||` is known only by tokens.set.
check(map, limit, token, t, rnd) ==
    LET known == map[token].present
        bucket == IF known THEN map[token]
                  ELSE [present |-> TRUE, count |-> 0, lastRefill |-> t]
        timePassed == t - bucket.lastRefill
        tokensToAdd == (timePassed \div LimiterInterval) * limit
        refilled == IF tokensToAdd > 0
                    THEN [bucket EXCEPT !.count = Min(limit, @ + tokensToAdd),
                                        !.lastRefill = t]
                    ELSE bucket
        taken == [map EXCEPT ![token] = [refilled EXCEPT !.count = @ - 1]]
    IN IF refilled.count < 1
       THEN [threw |-> TRUE,
             tokens |-> IF known THEN [map EXCEPT ![token] = refilled] ELSE map]
       ELSE [threw |-> FALSE,
             tokens |-> IF rnd THEN LimiterCleanup(taken, t) ELSE taken]

\* the requests of a token that were let through in the interval ending at t
AdmittedInInterval(token, t) ==
    Cardinality({i \in 1..Len(admitted[token]) :
                    admitted[token][i] > t - LimiterInterval})

\* middleware.ts:9-25 for a request to /api/translate
TranslateRequest ==
    /\ response.seq < MaxRequests
    /\ \E ip \in ClientIps \cup {""}, xff \in {"", "ip2"}, rnd \in BOOLEAN :
        LET token == IF ip # "" THEN ip ELSE IF xff # "" THEN xff ELSE "anonymous"
            r == check(limiterTokens, RequestLimit, token, clock, rnd)
        IN /\ limiterTokens' = r.tokens
           /\ admitted' = IF r.threw THEN admitted
                          ELSE [admitted EXCEPT ![token] = Append(@, clock)]
           /\ response' = [NoResp EXCEPT !.seq = response.seq + 1, !.path = TranslatePath,
                                     !.token = token, !.at = clock,
                                     !.inInterval = AdmittedInInterval(token, clock),
                                     !.status = IF r.threw THEN 429 ELSE 200]
    /\ UNCHANGED <<clock, tempDir, cleanupSecret>>
    /\ UNCHANGED <<runVars, textVars, clientVars>>

\* cleanup/route.ts:9: the value the authorization header is compared with
ExpectedAuthorization(secret) ==
    Header("Bearer", IF secret \in {Unset, ""} THEN DefaultSecret ELSE secret)

\* mutant: the handler skips the authorization test
AuthorizedAlways(authHeader, secret) == TRUE

\* cleanup/route.ts:8-9: the test of the authorization header
Authorized(authHeader, secret) == authHeader = ExpectedAuthorization(secret)

\* cleanup/route.ts:27: the file is older than 24 hours
Stale(mtime, t) == t - mtime > TwentyFourHours

\* cleanup/route.ts:19-35: the loop over readdir(tempDir); `done` is the set
\* of files the loop reached before stat or unlink threw (all of them when
\* nothing threw)
DeleteStale(dir, t, done) ==
    [f \in DOMAIN dir |->
        IF f \in done /\ dir[f] # Absent /\ Stale(dir[f], t) THEN Absent ELSE dir[f]]

\* middleware.ts:9-25 (a path other than /api/translate is passed on) and
\* cleanup/route.ts:5-47
CleanupRequest ==
    /\ response.seq < MaxRequests
    /\ \E authHeader \in Headers, done \in SUBSET FileNames :
        LET after == DeleteStale(tempDir, clock, done)
            deletedFiles == Cardinality({f \in FileNames : after[f] # tempDir[f]})
        IN IF ~Authorized(authHeader, cleanupSecret)
           THEN /\ response' = [NoResp EXCEPT !.seq = response.seq + 1, !.path = CleanupPath,
                                          !.at = clock, !.status = 401,
                                          !.authorization = authHeader]
                /\ UNCHANGED tempDir
           ELSE /\ response' = [NoResp EXCEPT !.seq = response.seq + 1, !.path = CleanupPath,
                                          !.at = clock, !.status = 200,
                                          !.authorization = authHeader,
                                          !.deletedFiles = deletedFiles]
                /\ tempDir' = after
    /\ UNCHANGED <<clock, limiterTokens, admitted, cleanupSecret>>
    /\ UNCHANGED <<runVars, textVars, clientVars>>

\* time passes between two requests
ClockTick ==
    /\ \E t \in Instants : t > clock /\ clock' = t
    /\ UNCHANGED <<limiterTokens, admitted, response, tempDir, cleanupSecret>>
    /\ UNCHANGED <<runVars, textVars, clientVars>>

ApiInit ==
    /\ route = "batch"
    /\ Fresh
    /\ fullText = <<>>
    /\ ret = NoRet
    /\ ApiFresh
    /\ tempDir \in [FileNames -> {Absent} \cup Mtimes]
    /\ cleanupSecret \in Secrets
    /\ ClientFresh

ApiNext ==
    \/ TranslateRequest
    \/ CleanupRequest
    \/ ClockTick

ApiSpec == ApiInit /\ [][ApiNext]_vars

\* ============================================================== the client
\* part_007: the page component; file, uploadId, progress and result are its
\* React state, handleTranslate its click handler
ServerMessage == "No text found in PDF."
Frame(t) == [type |-> t, message |-> IF t = "error" THEN ServerMessage ELSE ""]
\* the frames of a response body of /api/translate, one line each
Streams ==
    {<<Frame("init"), Frame("progress"), Frame("building"), Frame("completed")>>,
     <<Frame("init"), Frame("progress"), Frame("building"), Frame("error")>>,
     <<Frame("progress"), Frame("error")>>,
     <<Frame("error")>>}

Progress(stage, message) == [stage |-> stage, message |-> message]

\* part_007:63-82: handleFileSelect(selectedFile), from the file input or a drop
HandleFileSelect ==
    /\ \E selected \in {"pdf", "other", "large"} :
        IF selected # "pdf"
        THEN UNCHANGED <<file, translationResult, progress>>
        ELSE /\ file' = selected
             /\ translationResult' = NoTranslation
             /\ progress' = Progress("idle", "")
    /\ UNCHANGED <<uploadId, hpc, rendered, id, requests, reader, uploads>>
    /\ UNCHANGED <<runVars, textVars, apiVars>>

\* part_007:213: isProcessing
IsProcessing(stage) ==
    stage \in {"uploading", "extracting", "translating", "building"}

\* part_007:313-314, 174-175, 93-101: the Translate button, disabled={!file ||
\* isProcessing}, is clicked while no invocation is running; the closures of
\* handleTranslate hold the state of the render that made them; uploadFile
\* sends the file
HandleTranslate ==
    /\ hpc = "idle"
    /\ uploads < MaxUploads
    /\ file # NoFile
    /\ ~IsProcessing(progress.stage)
    /\ progress' = Progress("uploading", "Uploading PDF...")
    /\ rendered' = uploadId
    /\ id' = NoId
    /\ uploads' = uploads + 1
    /\ hpc' = "upload"
    /\ UNCHANGED <<file, uploadId, translationResult, requests, reader>>
    /\ UNCHANGED <<runVars, textVars, apiVars>>

\* part_007:117: translateFile of the same render: `if (!uploadId) return;`
TranslateFileReturns(seen) == seen = NoId

\* part_007:101-114, 176-179, 117-125: the upload is answered; handleTranslate
\* goes on to setUploadId(id) and translateFile()
UploadResponds ==
    /\ hpc = "upload"
    /\ \E answer \in {"ok", "not_ok", "no_id"} :
        IF answer = "not_ok" THEN
            /\ progress' = Progress("error", "Upload failed")
            /\ id' = NoId
            /\ hpc' = "idle"
            /\ UNCHANGED <<uploadId, requests>>
        ELSE IF answer = "no_id" THEN
            /\ id' = NoId
            /\ hpc' = "idle"
            /\ UNCHANGED <<uploadId, progress, requests>>
        ELSE
            /\ id' = uploads
            /\ uploadId' = uploads
            /\ IF TranslateFileReturns(rendered)
               THEN /\ hpc' = "idle"
                    /\ UNCHANGED <<progress, requests>>
               ELSE /\ progress' = Progress("translating", "Starting translation...")
                    /\ requests' = Append(requests, rendered)
                    /\ hpc' = "fetch"
    /\ UNCHANGED <<file, translationResult, rendered, reader, uploads>>
    /\ UNCHANGED <<runVars, textVars, apiVars>>

\* part_007:121-133, 167-171: the response of /api/translate arrives
TranslateResponds ==
    /\ hpc = "fetch"
    /\ \E answer \in {"not_ok", "no_body", "body"}, body \in Streams :
        IF answer = "not_ok" THEN
            /\ progress' = Progress("error", "Translation failed")
            /\ hpc' = "idle"
            /\ UNCHANGED reader
        ELSE IF answer = "no_body" THEN
            /\ progress' = Progress("error", "No response stream")
            /\ hpc' = "idle"
            /\ UNCHANGED reader
        ELSE
            /\ reader' = body
            /\ hpc' = "read"
            /\ UNCHANGED progress
    /\ UNCHANGED <<file, uploadId, translationResult, rendered, id, requests,
                   uploads>>
    /\ UNCHANGED <<runVars, textVars, apiVars>>

\* part_007:142-165: the body of `for (const line of lines)` for one frame;
\* the Error thrown for an error frame is caught by the catch of the same
\* try, which logs it
ReadLine ==
    /\ hpc = "read"
    /\ reader # <<>>
    /\ LET data == Head(reader) IN
        /\ IF data.type = "progress"
           THEN /\ progress' = Progress("translating", "Translating chunk")
                /\ UNCHANGED translationResult
           ELSE IF data.type = "building"
           THEN /\ progress' = Progress("building", "Building DOCX file...")
                /\ UNCHANGED translationResult
           ELSE IF data.type = "completed"
           THEN /\ progress' = Progress("completed", "Translation completed!")
                /\ translationResult' = "result"
           ELSE UNCHANGED <<progress, translationResult>>
        /\ reader' = Tail(reader)
    /\ UNCHANGED <<file, uploadId, hpc, rendered, id, requests, uploads>>
    /\ UNCHANGED <<runVars, textVars, apiVars>>

\* part_007:135-137, 167-171: reader.read() reports done, or rejects
ReadEnds ==
    /\ hpc = "read"
    /\ \E read \in {"done", "rejects"} :
        /\ read = "done" => reader = <<>>
        /\ progress' = IF read = "done" THEN progress
                       ELSE Progress("error", "Translation failed")
    /\ reader' = <<>>
    /\ hpc' = "idle"
    /\ UNCHANGED <<file, uploadId, translationResult, rendered, id, requests,
                   uploads>>
    /\ UNCHANGED <<runVars, textVars, apiVars>>

ClientInit ==
    /\ route = "batch"
    /\ Fresh
    /\ fullText = <<>>
    /\ ret = NoRet
    /\ ApiFresh
    /\ tempDir = [f \in FileNames |-> Absent]
    /\ cleanupSecret = Unset
    /\ ClientFresh

ClientNext ==
    \/ HandleFileSelect
    \/ HandleTranslate
    \/ UploadResponds
    \/ TranslateResponds
    \/ ReadLine
    \/ ReadEnds

ClientSpec == ClientInit /\ [][ClientNext]_vars

\* ================================================================ the run
Next ==
    \/ Validate
    \/ Download
    \/ Extract
    \/ AdmitBatch
    \/ SomeCallResolves
    \/ SomeCallRejects
    \/ SomeTimeoutFires
    \/ SomeBackoffEnds
    \/ AbandonedSettles
    \/ Advance
    \/ JoinBatch
    \/ AfterLoop
    \/ Build
    \/ RValidate
    \/ RExtract
    \/ RLoop
    \/ RCallResolves
    \/ RCallRejects
    \/ RBackoffEnds
    \/ Heartbeat
    \/ RAdvance
    \/ RBuild

Spec == Init /\ [][Next]_vars

\* Timers that are due fire, settled promises resume their awaiters, and a
\* remote call or upload that was given an outcome settles with it.
TimerStep ==
    \/ Advance
    \/ SomeTimeoutFires
    \/ SomeBackoffEnds
    \/ SomeCallResolves
    \/ SomeCallRejects
    \/ AdmitBatch
    \/ JoinBatch
    \/ AfterLoop
    \/ Build

TimerFairness == WF_vars(TimerStep)

TimerSpec == Init /\ [][Next]_vars /\ TimerFairness

\* ================================================================ claims
Settled == {"fulfilled", "rejected"}
IsTerminal(e) == e.type \in {"completed", "error"}
TerminalPositions == {i \in 1..Len(events) : IsTerminal(events[i])}
HasEvent(t) == \E i \in 1..Len(events) : events[i].type = t
AdmittedUnits == {k \in DOMAIN unit : unit[k].admits > 0}
SuccessfulUnits == {k \in DOMAIN unit : unit[k].st = "fulfilled" /\ unit[k].ok}
FailedUnits == {k \in DOMAIN unit : unit[k].st \in Settled /\ ~unit[k].ok}
Executing == {k \in DOMAIN unit : unit[k].st \in {"calling", "backoff"}}
LeftLoop ==
    pc \in {"afterLoop", "build", "storing"} \/ (pc = "done" /\ totalChunks > 0)

\* C1 (as claimed): a batch run that emits completed and in which a unit failed
\* all its attempts reports partial = true in that event.
C1_FailedUnitReportsPartial ==
    (route = "batch" /\ result.set /\ FailedUnits # {}) => result.partial

\* C2 (as claimed): when a batch run ends with zero successful units it has
\* emitted an error event, no building and no completed event, and has stored
\* no document.
C2_AllFailedIsError ==
    (route = "batch" /\ pc = "done" /\ totalChunks > 0 /\ SuccessfulUnits = {})
        => /\ HasEvent("error")
           /\ ~HasEvent("building")
           /\ ~HasEvent("completed")
           /\ stored = 0

\* C3: in both routes a terminal event (completed or error) is emitted at most
\* once, only when the invocation ends, nothing is emitted after it, and an
\* invocation that has ended has emitted exactly one.
C3_ExactlyOneTerminalEvent ==
    /\ Cardinality(TerminalPositions) <= 1
    /\ TerminalPositions # {} => (TerminalPositions = {Len(events)} /\ pc = "done")
    /\ pc = "done" => Cardinality(TerminalPositions) = 1

\* C3 witness: a batch run whose units were translated and whose document could
\* not be stored has ended with building followed by one error event.
C3_Witness ==
    /\ route = "batch"
    /\ pc = "done"
    /\ HasEvent("building")
    /\ events[Len(events)].type = "error"
    /\ FailedUnits # {}

\* C4: in a batch run every settled unit has the outcome of its own attempts,
\* the results of all units of every joined batch are collected in order, the
\* loop is left early only because of the time limit, and the completed event's
\* failedChunks is the number of units whose result is a failure.
C4_FailureDoesNotAbortSiblings ==
    route = "batch" =>
        /\ \A k \in DOMAIN unit :
               unit[k].st \in Settled =>
                   /\ unit[k].st = "fulfilled"
                   /\ unit[k].ok <=> Len(unit[k].errs) < unit[k].calls
                   /\ ~unit[k].ok => unit[k].calls = CHUNK_REQUEST_RETRIES + 1
        /\ pc # "join" =>
               /\ Len(translated) = Cardinality(AdmittedUnits)
               /\ \A k \in AdmittedUnits :
                      unit[k].st \in Settled /\ translated[k + 1] = unit[k].text
        /\ pc = "afterLoop" => (b >= NumBatches \/ now > HARD_TIME_LIMIT_MS)
        /\ result.set => result.failedChunks = Cardinality(FailedUnits)

\* C4 witness: a completed run in which a unit failed, a sibling of the same
\* batch succeeded and a unit of a later batch succeeded.
C4_Witness ==
    /\ route = "batch"
    /\ result.set
    /\ \E k1, k2, k3 \in DOMAIN unit :
        /\ k1 \div PARALLEL_LIMIT = k2 \div PARALLEL_LIMIT
        /\ k1 \in FailedUnits
        /\ k2 \in SuccessfulUnits
        /\ k3 \div PARALLEL_LIMIT > k1 \div PARALLEL_LIMIT
        /\ k3 \in SuccessfulUnits

\* C5 (as claimed): in every route a unit whose attempts are all exhausted has
\* a failed result that was returned (ok = false, empty text); no exception
\* left the executor.
C5_ExhaustedUnitYieldsFailedResult ==
    \A k \in DOMAIN unit :
        LET maxAttempts == IF route = "batch" THEN CHUNK_REQUEST_RETRIES + 1
                           ELSE RetryAttempts
        IN Len(unit[k].errs) = maxAttempts
               => /\ unit[k].st = "fulfilled"
                  /\ ~unit[k].ok
                  /\ unit[k].text = <<>>

\* C6 (as claimed): an attempt that failed with a non-retriable error is the
\* last remote call of its unit and is followed by no backoff wait.
C6_NoRetryAfterPermanentError ==
    \A k \in DOMAIN unit :
        \A i \in 1..Len(unit[k].errs) :
            unit[k].errs[i] = "permanent"
                => /\ unit[k].calls = i
                   /\ Len(unit[k].waits) < i
                   /\ unit[k].st \notin {"calling", "backoff"}

\* C7: in a batch run at most PARALLEL_LIMIT units are executing, and a unit of
\* a later batch has started only if every unit of every earlier batch settled.
C7_BoundedParallelism ==
    route = "batch" =>
        /\ Cardinality(Executing) <= PARALLEL_LIMIT
        /\ \A k1, k2 \in DOMAIN unit :
               (k1 \div PARALLEL_LIMIT < k2 \div PARALLEL_LIMIT /\ unit[k2].st # "new")
                   => unit[k1].st \in Settled

\* C7 witness: a full batch of PARALLEL_LIMIT units was started together and
\* has settled, and a unit of the next batch is now executing.
C7_Witness ==
    /\ route = "batch"
    /\ Cardinality(BatchUnits(0)) = PARALLEL_LIMIT
    /\ \A k \in BatchUnits(0) :
           /\ unit[k].st \in Settled
           /\ unit[k].admittedAt = unit[0].admittedAt
    /\ \E k \in Executing : k \div PARALLEL_LIMIT = 1

\* the remote calls of a batch run that were issued and have neither resolved
\* nor rejected: those awaited and those dropped by a timeout
OutstandingCalls ==
    Cardinality({k \in DOMAIN unit : unit[k].st = "calling"}) + abandoned

\* C8 (as claimed): the number of outstanding remote calls of a batch run,
\* counting the calls abandoned by a timeout, is at most PARALLEL_LIMIT.
C8_OutstandingCallsBounded ==
    route = "batch" => OutstandingCalls <= PARALLEL_LIMIT

\* C9 (as claimed): every batch was admitted at an elapsed time strictly below
\* HARD_TIME_LIMIT_MS.
C9_AdmittedOnlyBeforeDeadline ==
    route = "batch" =>
        \A k \in AdmittedUnits : unit[k].admittedAt < HARD_TIME_LIMIT_MS

\* C10: in a batch run every unit is admitted at most once, so at most
\* totalChunks admissions happen, and when the run has left the scheduling loop
\* every admitted unit has settled and its result is recorded.
C10_AdmittedUnitsSettle ==
    route = "batch" =>
        /\ \A k \in DOMAIN unit : unit[k].admits <= 1
        /\ Cardinality(AdmittedUnits) <= totalChunks
        /\ LeftLoop =>
               /\ Len(translated) = Cardinality(AdmittedUnits)
               /\ \A k \in AdmittedUnits :
                      /\ unit[k].st \in Settled
                      /\ translated[k + 1] = unit[k].text

\* C10 witness: the run has left the loop with a unit that was admitted before
\* the time limit and settled after it.
C10_Witness ==
    /\ route = "batch"
    /\ pc = "build"
    /\ \E k \in AdmittedUnits :
        /\ unit[k].admittedAt < HARD_TIME_LIMIT_MS
        /\ unit[k].ok
        /\ unit[k].t0 + unit[k].durationMs > HARD_TIME_LIMIT_MS

\* the run left the batch loop at the time-limit test with k admitted batches,
\* 0 < k < number of batches
CutByDeadline ==
    /\ route = "batch"
    /\ LeftLoop
    /\ AdmittedUnits # {}
    /\ Cardinality(AdmittedUnits) < totalChunks

\* C11: no batch is admitted once the time limit has elapsed; a batch run cut
\* by the time limit after k admitted batches (0 < k < number of batches) goes
\* on to building, and when its document is stored the completed event has
\* partial = true; when every admitted unit succeeded the final frames report
\* no failed unit and as many completed units as were admitted.
C11_DeadlineCutIsPartial ==
    /\ route = "batch" =>
           \A k \in AdmittedUnits : unit[k].admittedAt <= HARD_TIME_LIMIT_MS
    /\ CutByDeadline =>
           /\ now > HARD_TIME_LIMIT_MS
           /\ pc = "afterLoop" => ~NothingTranslated(translated)
           /\ pc \in {"build", "storing", "done"} => HasEvent("building")
           /\ pc = "done" => (result.set <=> stored = 1)
           /\ result.set =>
                  /\ events[Len(events)].type = "completed"
                  /\ result.partial
                  /\ AdmittedUnits \subseteq SuccessfulUnits =>
                         /\ result.totalChunksCompleted = Cardinality(AdmittedUnits)
                         /\ result.failedChunks = 0

\* C11 witness: a run of two batches was cut after the first one, all three
\* admitted units succeeded, and completed was sent.
C11_Witness ==
    /\ CutByDeadline
    /\ result.set
    /\ result.partial
    /\ AdmittedUnits = SuccessfulUnits
    /\ Cardinality(AdmittedUnits) = PARALLEL_LIMIT
    /\ result.totalChunksCompleted = PARALLEL_LIMIT

\* the run has sent a terminal event and closed its stream
Ended ==
    /\ pc = "done"
    /\ events # <<>>
    /\ IsTerminal(events[Len(events)])
    /\ closeCalls >= 1

BaseDelayMs == IF route = "batch" THEN BackoffBaseMs ELSE RetryBaseMs

\* C13 (as claimed): the delay before attempt k (k >= 2) of a unit is
\* baseDelayMs * 2^(k-1) plus a jitter of 0..MaxJitter.
C13_DelayBeforeAttemptK ==
    \A u \in DOMAIN unit : \A j \in 1..Len(unit[u].waits) :
        LET k == j + 1 IN
        /\ unit[u].waits[j] >= BaseDelayMs * Pow2(k - 1)
        /\ unit[u].waits[j] <= BaseDelayMs * Pow2(k - 1) + MaxJitter

\* C13 (amended): a delay occurs only between two attempts of a unit (none
\* before attempt 1, none after the last attempt); the delay before attempt k
\* (k >= 2) is baseDelayMs * 2^(k-2), exactly in the batch route and plus a
\* jitter of 0..MaxJitter in withRetry; a batch unit whose first attempt timed
\* out and whose second attempt succeeded has ok = true after 2 calls and one
\* delay of BackoffBaseMs, which starts at the timeout and ends at attempt 2.
C13_BackoffBetweenAttempts ==
    \A u \in DOMAIN unit :
        LET x == unit[u] IN
        /\ Len(x.waits) = (IF x.st = "backoff" THEN x.calls
                           ELSE IF x.st = "new" THEN 0 ELSE x.calls - 1)
        /\ Len(x.waits) = Len(x.errs) - (IF x.st \in Settled /\ ~x.ok THEN 1 ELSE 0)
        /\ \A j \in 1..Len(x.waits) :
               LET k == j + 1 IN
               /\ x.waits[j] >= BaseDelayMs * Pow2(k - 2)
               /\ x.waits[j] <= BaseDelayMs * Pow2(k - 2)
                                   + (IF route = "batch" THEN 0 ELSE MaxJitter)
        /\ (route = "batch" /\ x.st = "fulfilled" /\ x.ok /\ x.errs = <<"timeout">>) =>
               /\ x.calls = 2
               /\ x.waits = <<BackoffBaseMs>>
               /\ x.t0 = x.admittedAt + CHUNK_REQUEST_TIMEOUT_MS + BackoffBaseMs

\* C13 witness: a batch unit timed out in attempt 1 and succeeded in attempt 2.
C13_Witness ==
    /\ route = "batch"
    /\ \E u \in DOMAIN unit :
           /\ unit[u].st = "fulfilled"
           /\ unit[u].ok
           /\ unit[u].errs = <<"timeout">>
           /\ unit[u].calls = 2
           /\ unit[u].waits = <<BackoffBaseMs>>

\* ------------------------------------------------ claims on text functions
StripWhitespace(s) == SelectSeq(s, LAMBDA c : ~IsWhitespace(c))
Chunkers == {"chunkText", "chunkTextUnified"}

\* C14 (as claimed): each of sanitize, sanitizeDocx and sanitizeForDocx is
\* idempotent, and its output holds no CR and no character of the class its
\* first replace removes.
C14_SanitizeIdempotent ==
    ret.fn \in Sanitizers =>
        LET o == ret.out[1] IN
        /\ SanitizeBy(ret.fn, o) = o
        /\ \A i \in 1..Len(o) : o[i] # "CR" /\ o[i] \notin RemovedBy(ret.fn)

\* C15: every chunk returned by chunkText(text, max), in either variant, has
\* length at most max.
C15_ChunkWithinBudget ==
    ret.fn \in Chunkers =>
        \A i \in 1..Len(ret.out) : Len(ret.out[i]) <= ret.n

\* C15 witness: a paragraph longer than max was hard-split into several chunks.
C15_Witness ==
    /\ ret.fn = "chunkText"
    /\ \E i \in 1..Len(ret.pages) : Len(ret.pages[i]) > ret.n
    /\ Len(ret.out) >= 2

\* C16: the chunks of chunkText, concatenated in order and with white space
\* deleted, are the input text with white space deleted.
C16_ChunkTextKeepsContent ==
    ret.fn \in Chunkers =>
        StripWhitespace(Concat(ret.out)) = StripWhitespace(fullText)

\* C16 witness: a paragraph longer than max that holds a CR or U+2028 between
\* two letters was chunked.
C16_Witness ==
    /\ ret.fn = "chunkText"
    /\ \E i \in 1..Len(ret.pages) :
           /\ Len(ret.pages[i]) > ret.n
           /\ \E j \in 2..(Len(ret.pages[i]) - 1) :
                  /\ ret.pages[i][j] \in {"CR", "LS"}
                  /\ ~IsWhitespace(ret.pages[i][j - 1])
                  /\ ~IsWhitespace(ret.pages[i][j + 1])

\* C17: the page slices of splitTextByPages, concatenated, are the text (every
\* character is in exactly one slice); the pages are the trimmed slices, the
\* groups hold the pages in order, and the unit texts concatenated in index
\* order are the text up to white space.
C17_PagesKeepContent ==
    ret.fn = "splitTextByPages" =>
        /\ Concat(ret.slices) = fullText
        /\ Len(ret.pages) = Len(ret.slices)
        /\ \A i \in 1..Len(ret.pages) : ret.pages[i] = Trim(ret.slices[i])
        /\ Concat(ret.groups) = ret.pages
        /\ StripWhitespace(Concat(ret.out)) = StripWhitespace(fullText)

\* C17 witness: a text of several pages was split into several units and a
\* slice lost white space to trim.
C17_Witness ==
    /\ ret.fn = "splitTextByPages"
    /\ ret.n >= 2
    /\ Len(ret.out) >= 2
    /\ ret.pages # ret.slices

\* groups are the consecutive runs of `size` elements of arr, the last one
\* holding the remaining 1..size elements
Grouped(arr, size, groups) ==
    /\ Len(groups) = CeilDiv(Len(arr), size)
    /\ \A g \in 1..Len(groups) :
           /\ groups[g] = SubSeq(arr, (g - 1) * size + 1, Min(g * size, Len(arr)))
           /\ g < Len(groups) => Len(groups[g]) = size
           /\ Len(groups[g]) \in 1..size

\* C18: with a page count of 0 or 1 the page-mode chunker yields one unit, the
\* whole text; with P > 1 pages it yields ceil(P / size) units, each the join
\* of `size` consecutive pages, the last one of the remaining 1..size pages;
\* groupPages groups its pages the same way.
C18_PageGrouping ==
    /\ ret.fn = "splitTextByPages" =>
           /\ ret.n <= 1 => ret.out = <<fullText>>
           /\ ret.n > 1 => Len(ret.pages) = ret.n
           /\ Grouped(ret.pages, ret.size, ret.groups)
           /\ ret.out = UnitTexts(ret.groups)
           /\ Len(ret.out) = NumGroups(NumPageTexts(Max(1, ret.n)), ret.size)
    /\ ret.fn = "groupPages" =>
           /\ Grouped(ret.pages, ret.size, ret.groups)
           /\ ret.out = UnitTexts(ret.groups)
           /\ Len(ret.out) = NumGroups(ret.n, ret.size)

\* C18 witness: three pages were grouped by two: a full unit and a last unit of
\* one page.
C18_Witness ==
    /\ ret.fn = "splitTextByPages"
    /\ ret.n = 3
    /\ ret.size = 2
    /\ Len(ret.groups) = 2
    /\ Len(ret.groups[2]) = 1

\* C19 (as claimed): no unit returned by the page-mode chunker or by chunkText
\* is empty or blank.
C19_NoBlankUnit ==
    ret.fn \in Chunkers \cup {"splitTextByPages"} =>
        \A i \in 1..Len(ret.out) : Trim(ret.out[i]) # <<>>

\* ----------------------------------------------------- claims on the run
ChunkEvents == {i \in 1..Len(events) : events[i].type = "chunk"}
ChunkEventsOf(n, oks) ==
    {i \in ChunkEvents : events[i].index = n /\ events[i].ok \in oks}

\* C20 (as claimed): the units of a batch run have the indices 0..N-1 with
\* N = totalChunks, and every chunk event carries an index of that range.
C20_ChunkIndexInUnitRange ==
    route = "batch" =>
        /\ DOMAIN unit = 0..(totalChunks - 1)
        /\ \A i \in ChunkEvents : events[i].index \in 0..(totalChunks - 1)

\* C20 (amended): the units of a batch run have the indices 0..N-1 with
\* N = totalChunks; a chunk event carries chunkIndexGlobal, the index of its
\* unit plus one, in 1..N: for every unit k the chunk events with index k + 1
\* are exactly one per finished attempt of unit k, the one with ok = true
\* being that of its successful attempt.
C20_ChunkIndexIsUnitPlusOne ==
    route = "batch" =>
        /\ DOMAIN unit = 0..(totalChunks - 1)
        /\ \A i \in ChunkEvents : events[i].index \in 1..totalChunks
        /\ \A k \in DOMAIN unit :
               /\ Cardinality(ChunkEventsOf(k + 1, {FALSE})) = Len(unit[k].errs)
               /\ Cardinality(ChunkEventsOf(k + 1, {TRUE}))
                      = (IF unit[k].st = "fulfilled" /\ unit[k].ok THEN 1 ELSE 0)

\* C20 witness: a run of two batches has sent chunk events for the last unit,
\* index N, and for a failed attempt of another unit.
C20_Witness ==
    /\ route = "batch"
    /\ totalChunks > PARALLEL_LIMIT
    /\ ChunkEventsOf(totalChunks, {TRUE}) # {}
    /\ \E k \in DOMAIN unit :
           k + 1 < totalChunks /\ ChunkEventsOf(k + 1, {FALSE}) # {}

\* the position in the stream of the last chunk event of unit k: the executor
\* sends it in the step in which it returns, so it orders the settlements
SettlePos(k) ==
    CHOOSE i \in ChunkEventsOf(k + 1, BOOLEAN) :
        \A j \in ChunkEventsOf(k + 1, BOOLEAN) : j <= i
\* the positions of the progress events the join sent for unit k
ProgressOf(k) ==
    {i \in 1..Len(events) :
        events[i].type = "progress" /\ events[i].index = k + 1}

\* C21 (as claimed): in a batch run, when unit a settles before unit c of the
\* same batch, the progress event of a is emitted before the progress event of
\* c, whatever their indices.
C21_ProgressInCompletionOrder ==
    route = "batch" =>
        \A a, c \in DOMAIN unit :
            (/\ a \div PARALLEL_LIMIT = c \div PARALLEL_LIMIT
             /\ ProgressOf(a) # {}
             /\ ProgressOf(c) # {}
             /\ SettlePos(a) < SettlePos(c))
                => \A i \in ProgressOf(a), j \in ProgressOf(c) : i < j

HeartbeatEvents == {i \in 1..Len(events) : events[i].type = "heartbeat"}
\* the heartbeats owed at elapsed time t: one per full interval, the one that
\* is due at t itself may still be about to fire
HeartbeatsOwed(t) ==
    (t \div HeartbeatMs) - (IF t % HeartbeatMs = 0 /\ t > 0 THEN 1 ELSE 0)

\* C22 (as claimed): while a translate run of either route is in progress a
\* heartbeat event has been emitted for every interval of HeartbeatMs that has
\* elapsed, whatever the run awaits; when the run has ended the timer is
\* stopped and the terminal event is the last event.
C22_HeartbeatEveryInterval ==
    /\ pc \notin {"start", "done"} =>
           Cardinality(HeartbeatEvents) >= HeartbeatsOwed(now)
    /\ pc = "done" =>
           /\ ~hb.active
           /\ IsTerminal(events[Len(events)])

\* unit i + 1 is scheduled after unit i and not together with it: always in
\* the retry route, whose loop awaits one unit at a time, and across the
\* boundary of two batches in the batch route (every pair of consecutive units
\* when the batches hold one unit)
OneAtATime(i) ==
    route = "retry" \/ i \div PARALLEL_LIMIT # (i + 1) \div PARALLEL_LIMIT

\* C23: where units are executed one at a time, they start and finish in
\* index order: unit i + 1 issues its first remote call only after unit i has
\* settled, at no earlier time than unit i was started, and the chunk events
\* of unit i all precede those of unit i + 1.
C23_SerialUnitsInIndexOrder ==
    \A i \in DOMAIN unit :
        (i + 1 \in DOMAIN unit /\ OneAtATime(i) /\ unit[i + 1].st # "new") =>
            /\ unit[i].st \in Settled
            /\ unit[i + 1].calls >= 1
            /\ unit[i + 1].admittedAt >= unit[i].admittedAt
            /\ \A p \in ChunkEventsOf(i + 1, BOOLEAN),
                  q \in ChunkEventsOf(i + 2, BOOLEAN) : p < q

\* C23 witness: in the retry route unit 0 needed a second call and has
\* settled, and unit 1 is now awaiting its first call.
C23_Witness ==
    /\ route = "retry"
    /\ totalChunks = 2
    /\ unit[0].st = "fulfilled"
    /\ unit[0].calls >= 2
    /\ unit[1].st = "calling"
    /\ unit[1].calls = 1

\* the positions of the progress events, and the number of them up to position i
ProgressEvents == {i \in 1..Len(events) : events[i].type = "progress"}
ProgressUpTo(i) == Cardinality({j \in ProgressEvents : j <= i})

\* C24: in every state of a batch run 0 <= failedChunks <= translatedSoFar <=
\* totalChunks, the number of recorded results is translatedSoFar, and the
\* progress events carry currentChunk = 1, 2, 3, .. in this order, the last
\* one carrying translatedSoFar.
C24_CountersWithinTotal ==
    route = "batch" =>
        /\ 0 <= failedChunks
        /\ failedChunks <= translatedSoFar
        /\ translatedSoFar <= totalChunks
        /\ Len(translated) = translatedSoFar
        /\ Len(chunkDurations) <= translatedSoFar
        /\ Cardinality(ProgressEvents) = translatedSoFar
        /\ \A i \in ProgressEvents : events[i].index = ProgressUpTo(i)

\* C24 witness: two batches were joined, four units in all, one of which
\* failed.
C24_Witness ==
    /\ route = "batch"
    /\ totalChunks = PARALLEL_LIMIT + 1
    /\ translatedSoFar = totalChunks
    /\ failedChunks = 1
    /\ Cardinality(ProgressEvents) = totalChunks

\* the characters of a result text of the run: one character per token
TextChars(t) == [j \in 1..Len(t) |-> ToString(t[j])]

\* route.ts:670: translated.join("\n\n").split("\n").map((p) => p.trim()),
\* the paragraphs handed to buildAndUploadDocx
BodyParagraphs(ts) ==
    LET body == Join([i \in 1..Len(ts) |-> TextChars(ts[i])], <<"LF", "LF">>)
        lines == Split(body)
    IN [i \in 1..Len(lines) |-> Trim(lines[i])]

RECURSIVE OkTexts(_)
\* the recorded texts of the units k, k + 1, .. whose result has ok = true
OkTexts(k) ==
    IF k >= Len(translated) THEN <<>>
    ELSE (IF unit[k].ok THEN <<translated[k + 1]>> ELSE <<>>) \o OkTexts(k + 1)

\* C25 (as claimed): when a batch run builds its document, the texts of the
\* units are in the body in index order, and the body is the one assembled
\* from the successful results alone: a failed unit adds no paragraph.
C25_FailedUnitAddsNothing ==
    (route = "batch" /\ HasEvent("building")) =>
        /\ SelectSeq(BodyParagraphs(translated), LAMBDA p : p # <<>>)
               = SelectSeq(BodyParagraphs(OkTexts(0)), LAMBDA p : p # <<>>)
        /\ BodyParagraphs(translated) = BodyParagraphs(OkTexts(0))

\* the run state of the batch route: results, counters, durations, token totals
RunState == <<translated, translatedSoFar, failedChunks, chunkDurations, tokens>>

\* C26: in a batch run every step that changes the run state is the join of
\* the current batch, taken when all units of the batch have settled; it
\* leaves the units alone and records exactly one result per unit of the
\* batch; no step of a unit task changes the run state.
C26_OnlyJoinWritesRunState ==
    [][(route = "batch" /\ RunState' # RunState) =>
           /\ pc = "join"
           /\ pc' # "join"
           /\ \A k \in BatchUnits(b) : unit[k].st \in Settled
           /\ unit' = unit
           /\ Len(translated') = Len(translated) + Cardinality(BatchUnits(b))
           /\ translatedSoFar' = translatedSoFar + Cardinality(BatchUnits(b))]_vars

\* C26 witness: the units of a batch settled out of index order, one of them
\* after a retry, and the join has recorded one result for each of them.
C26_Witness ==
    /\ route = "batch"
    /\ pc = "loop"
    /\ totalChunks >= 2
    /\ translatedSoFar = Min(PARALLEL_LIMIT, totalChunks)
    /\ Len(translated) = translatedSoFar
    /\ SettlePos(1) < SettlePos(0)
    /\ unit[0].calls = 2

EventTypes == {"log", "init", "chunk", "progress", "metrics", "building",
               "metrics_final", "completed", "error", "heartbeat"}
PositionsOf(types) == {i \in 1..Len(events) : events[i].type \in types}
UnitEventTypes == {"chunk", "progress", "metrics"}

\* C27: the stream is a queue of whole frames that only grows at its end, so
\* the subscriber reads the frames in the order of the sends; in a batch run
\* init is sent once and before every chunk, progress and metrics event,
\* building is sent once and after the last of them, and completed is sent
\* only after building.
C27_EventsInLifecycleOrder ==
    /\ [][Len(events') >= Len(events)
              /\ SubSeq(events', 1, Len(events)) = events]_vars
    /\ [](\A i \in 1..Len(events) :
              events[i] \in [type : EventTypes, index : Nat, ok : BOOLEAN])
    /\ [](route = "batch" =>
              /\ Cardinality(PositionsOf({"init"})) <= 1
              /\ Cardinality(PositionsOf({"building"})) <= 1
              /\ \A i \in PositionsOf(UnitEventTypes) :
                     /\ \E j \in PositionsOf({"init"}) : j < i
                     /\ \A j \in PositionsOf({"building"}) : i < j
              /\ \A i \in PositionsOf({"metrics_final", "completed"}) :
                     \E j \in PositionsOf({"building"}) : j < i)

\* C27 witness: a batch run has sent init, chunk events of a failed and of a
\* successful attempt, progress and metrics events, building and completed.
C27_Witness ==
    /\ route = "batch"
    /\ events # <<>>
    /\ events[Len(events)].type = "completed"
    /\ ChunkEventsOf(1, {FALSE}) # {}
    /\ ChunkEventsOf(1, {TRUE}) # {}
    /\ PositionsOf({"progress"}) # {}
    /\ PositionsOf({"metrics"}) # {}
    /\ PositionsOf({"building"}) # {}

\* C28 (as claimed): every unit of a batch run that has returned its result
\* has exactly one chunk event in the stream, whatever the number of its
\* attempts.
C28_OneChunkEventPerUnit ==
    route = "batch" =>
        \A k \in DOMAIN unit :
            unit[k].st \in Settled =>
                Cardinality(ChunkEventsOf(k + 1, BOOLEAN)) = 1

\* C28 (amended): the executor sends one chunk event per finished attempt,
\* ok = false for a failed attempt and ok = true for the successful one; a
\* unit that has returned its result has as many chunk events as it made
\* calls, between 1 and CHUNK_REQUEST_RETRIES + 1, the last of them carries
\* the ok of the result and was sent before the result was returned, hence
\* before the join accounts for the unit.
C28_OneChunkEventPerAttempt ==
    route = "batch" =>
        \A k \in DOMAIN unit :
            /\ Cardinality(ChunkEventsOf(k + 1, BOOLEAN))
                   = unit[k].calls - (IF unit[k].st = "calling" THEN 1 ELSE 0)
            /\ unit[k].st \in Settled =>
                   /\ Cardinality(ChunkEventsOf(k + 1, BOOLEAN))
                          \in 1..(CHUNK_REQUEST_RETRIES + 1)
                   /\ events[SettlePos(k)].ok = unit[k].ok
                   /\ \A j \in ChunkEventsOf(k + 1, BOOLEAN) :
                          j < SettlePos(k) => ~events[j].ok
                   /\ \A j \in ProgressOf(k) : SettlePos(k) < j

\* C28 witness: a unit failed its first attempt and succeeded in the second;
\* it has two chunk events, and the join has accounted for it.
C28_Witness ==
    /\ route = "batch"
    /\ \E k \in DOMAIN unit :
           /\ unit[k].st = "fulfilled"
           /\ unit[k].ok
           /\ unit[k].calls = 2
           /\ Cardinality(ChunkEventsOf(k + 1, BOOLEAN)) = 2
           /\ ProgressOf(k) # {}

\* ------------------------------------------------- claims on the API surface
\* C29 (as claimed): the middleware lets a request to /api/translate through
\* whenever fewer than RequestLimit requests of its token were let through in
\* the interval that ends with it, and answers 429 otherwise; in particular
\* the first request of a token is let through.
C29_AdmitsBelowLimit ==
    response.path = TranslatePath =>
        /\ response.inInterval < RequestLimit => response.status = 200
        /\ response.inInterval >= RequestLimit => response.status = 429

\* C30: a step of the cleanup route whose authorization header is not the
\* expected `Bearer <secret>` answers 401 and leaves the temp directory as it
\* was; 401 is answered to no other request.
C30_UnauthorizedCleanupDeletesNothing ==
    [][(response'.seq # response.seq /\ response'.path = CleanupPath) =>
           IF response'.authorization # ExpectedAuthorization(cleanupSecret)
           THEN response'.status = 401 /\ tempDir' = tempDir /\ response'.deletedFiles = 0
           ELSE response'.status = 200]_vars

\* C30 witness: a cleanup request with a bearer secret other than the
\* configured one was answered 401 while temp holds a file older than 24 hours.
C30_Witness ==
    /\ response.path = CleanupPath
    /\ response.status = 401
    /\ response.authorization = Header("Bearer", DefaultSecret)
    /\ cleanupSecret = "s3cret"
    /\ \E f \in FileNames : tempDir[f] # Absent /\ Stale(tempDir[f], response.at)

\* the files of dir that are more than 24 hours old at time t
StaleFiles(dir, t) == {f \in DOMAIN dir : dir[f] # Absent /\ Stale(dir[f], t)}

\* C31 (as claimed): a step of the cleanup route that passes the authorization
\* test and reports completion has deleted every file of temp that was more
\* than 24 hours old and no other file, and reports their number in
\* deletedFiles, also when stat or unlink failed on a file.
C31_CleanupDeletesEveryStaleFile ==
    [][(response'.seq # response.seq /\ response'.path = CleanupPath
            /\ response'.status = 200) =>
           /\ \A f \in FileNames :
                  tempDir'[f] = IF f \in StaleFiles(tempDir, clock)
                                THEN Absent ELSE tempDir[f]
           /\ response'.deletedFiles = Cardinality(StaleFiles(tempDir, clock))]_vars

\* ------------------------------------------ further claims on the run
\* C32: withRetry (the executor of the retry route, attempts = RetryAttempts,
\* baseMs = RetryBaseMs) calls fn at most `attempts` times; once a call has
\* succeeded its result is returned and fn is not called again; the wait after
\* failed attempt i (0-based) is baseMs * 2^i plus a jitter of 0..MaxJitter
\* and occurs only when another attempt follows; the error that ends the loop
\* is rethrown without a wait and ends the run.
C32_WithRetryBounded ==
    /\ [](route = "retry" =>
              \A k \in DOMAIN unit :
                  LET x == unit[k] IN
                  /\ x.calls <= RetryAttempts
                  /\ \A j \in 1..Len(x.waits) :
                         /\ x.waits[j] >= RetryBaseMs * Pow2(j - 1)
                         /\ x.waits[j] <= RetryBaseMs * Pow2(j - 1) + MaxJitter
                         /\ x.errs[j] = "retriable"
                  /\ x.st = "fulfilled" =>
                         Len(x.errs) = x.calls - 1 /\ Len(x.waits) = x.calls - 1
                  /\ x.st = "rejected" =>
                         /\ Len(x.errs) = x.calls
                         /\ Len(x.waits) = x.calls - 1
                         /\ x.calls = RetryAttempts \/ x.errs[x.calls] = "permanent"
                         /\ pc = "done")
    /\ [][route = "retry" =>
              \A k \in DOMAIN unit :
                  unit[k].st \in Settled => unit'[k] = unit[k]]_vars

\* C32 witness: a unit of the retry route failed all its attempts with a
\* retriable error; two waits were made, none after the last attempt.
C32_Witness ==
    /\ route = "retry"
    /\ \E k \in DOMAIN unit :
           /\ unit[k].st = "rejected"
           /\ unit[k].calls = RetryAttempts
           /\ unit[k].errs = <<"retriable", "retriable", "retriable">>
           /\ Len(unit[k].waits) = RetryAttempts - 1
           /\ unit[k].waits[2] = RetryBaseMs * 2 + MaxJitter

\* the joined units whose result carries a translation, counted from the
\* units' own records
TranslatedUnits ==
    {k \in DOMAIN unit : /\ IndexOf(k) <= Len(translated)
                         /\ unit[k].st = "fulfilled"
                         /\ unit[k].text # <<>>}

C34_StreamClosedExactlyOnce ==
    /\ closeCalls <= 1
    /\ ~startThrew
    /\ pc = "done" => closeCalls = 1

\* C35: once controller.close() has been called no frame is enqueued any more,
\* and at that moment no timer that calls send is pending: no unit is inside
\* an attempt (its timeout timer armed) or a backoff, and the heartbeat
\* interval has been cleared; calls abandoned by their timeout may still be
\* outstanding, and their settling sends nothing.
C35_NoSendAfterClose ==
    /\ [](closeCalls >= 1 => (Executing = {} /\ ~hb.active))
    /\ [][closeCalls >= 1 => events' = events]_vars

\* C35 witness: a batch run has closed its stream while a call abandoned by
\* its timeout is still outstanding.
C35_Witness ==
    /\ closeCalls >= 1
    /\ route = "batch"
    /\ abandoned > 0

\* ---------------------------------- further claims on the API surface
\* C36: every bucket stored in the limiter's Map has 0 <= count <= limit, and
\* a check that rejects (the middleware answers 429) leaves the Map as it was.
C36_BucketsInRangeRejectKeepsMap ==
    /\ [](\A t \in Tokens :
              limiterTokens[t].present =>
                  (limiterTokens[t].count >= 0 /\ limiterTokens[t].count <= RequestLimit))
    /\ [][(response'.seq # response.seq /\ response'.path = TranslatePath
               /\ response'.status = 429) =>
              limiterTokens' = limiterTokens]_vars

\* C36 witness: two checks of the same token, the second after more than one
\* interval, have both been rejected.
C36_Witness ==
    /\ response.path = TranslatePath
    /\ response.status = 429
    /\ response.seq >= 2
    /\ response.at > LimiterInterval

\* --------------------------------------------------- claims on the client
\* C37: when the client reads an error frame from the translate stream its
\* stage becomes 'error' with the message of the frame (it does not stay
\* 'translating'), and when it reads a completed frame its stage becomes
\* 'completed' and its result is set.
C37_TerminalFrameSetsStage ==
    [][(hpc = "read" /\ hpc' = "read" /\ reader # <<>> /\ reader' = Tail(reader)) =>
           /\ Head(reader).type = "error" =>
                  progress' = Progress("error", Head(reader).message)
           /\ Head(reader).type = "completed" =>
                  (progress'.stage = "completed" /\ translationResult' # NoTranslation)]_vars

\* C38: whenever the upload step of handleTranslate returns an id, the same
\* invocation sends a translate request that carries exactly that id, the
\* first invocation after the page was loaded included.
C38_TranslateRequestCarriesUploadedId ==
    [][(hpc = "upload" /\ id' # NoId) => requests' = Append(requests, id')]_vars

\* ------------------------------------ further claims on text functions
\* C39: for every text and every max >= 1 the chunker with the two branches
\* (route.ts) and the chunker with the single loop (part_002) return the same
\* sequence of chunks: what either returned is what the other computes.
C39_ChunkersAgree ==
    /\ ret.fn = "chunkText" => ret.out = chunkTextUnified(fullText, ret.n)
    /\ ret.fn = "chunkTextUnified" => ret.out = chunkText(fullText, ret.n)

\* C39 witness: the branching chunker was applied to a text with a paragraph
\* longer than max, which it split, and returned more than one chunk.
C39_Witness ==
    /\ ret.fn = "chunkText"
    /\ \E i \in 1..Len(ret.pages) : Len(ret.pages[i]) > ret.n
    /\ Len(ret.out) >= 2

====
